---- MODULE Spec2Model ----
(***************************************************************************)
(* A model of tabby's authentication service                               *)
(* (ee/tabby-webserver/src/service/auth.rs).                               *)
(*                                                                         *)
(* Every service method is a call that a client process p makes.  A call   *)
(* is cut at the points where the Rust code awaits the store: one action   *)
(* per awaited store call, so that the calls of two processes interleave   *)
(* exactly where two tokio tasks can.  The sequential specifications let   *)
(* one process make calls, the concurrent ones two.                        *)
(*                                                                         *)
(* calls[p] is the frame of p's current (or last finished) call: its       *)
(* arguments, the locals the Rust function holds across awaits, and, once  *)
(* pc = "done", the value it returned.                                     *)
(*                                                                         *)
(* The store (tabby_db::DbConn), the token codec (schema::auth) and the    *)
(* mail service are not part of the two source files; their operations     *)
(* are modelled from the specification and from the way auth.rs and its    *)
(* tests use them.  Collaborators work: a store call fails only for a      *)
(* reason the store's own contract gives (a unique key, a missing row).    *)
(*                                                                         *)
(* now is the clock: a tick is a unit of refresh token lifetime in the     *)
(* token specifications and a minute in the password reset one.  wrote and *)
(* history are ghosts, as is the pre field of a frame: they record what    *)
(* the properties need of the past and decide nothing.                     *)
(***************************************************************************)
EXTENDS Integers, Sequences, FiniteSets, TLC

(***************************************************************************)
(* Bounds of the model.                                                    *)
(***************************************************************************)
MaxInvitations == 1
MaxTokens == 3
MaxResets == 2
MaxTime == 3
MaxResetTime == 6
MaxSeats == 2
MaxIssued == 3
MaxSalt == 2
MaxSeatsTime == 4

(***************************************************************************)
(* Program constants.                                                      *)
(***************************************************************************)
\* Duration::minutes(5): the password reset cooldown; one tick is a minute.
ResetCooldown == 5
\* Duration::seconds(15): the age beyond which the cached seat count is
\* recounted; where the seat cache is concerned one tick is five seconds.
SeatsCacheAge == 3
\* The lifetime create_refresh_token gives a new row, in ticks.
RefreshTokenTTL == 2
\* The lifetime of a password reset request, in minutes: not shorter than the
\* cooldown.
PasswordResetLifetime == 5

Procs == {1, 2}
\* users.email is a unique key: there are no more accounts than emails.
Emails == {"a@x.com", "b@y.com"}
\* The part of an email after the @.
Domains == {"x.com", "y.com"}
Domain(email) == IF email = "a@x.com" THEN "x.com" ELSE "y.com"
Passwords == {"pw1", "pw2"}
Salts == {1}

NoCode == <<>>
NoToken == <<>>
InvitationCode(n) == <<"code", n>>

VARIABLES
    users,            \* the users table: users[id] is the row of id
    invitations,      \* the invitations table, a set of rows
    refresh_tokens,   \* the refresh_tokens table, a set of rows
    password_resets,  \* the password_reset table, a set of rows
    next_id,          \* the counters the store and the codec draw fresh values from
    now,              \* Utc::now(), in ticks
    license_status,   \* what the LicenseService injected into auth.rs reports
    security_setting, \* the domains whose emails may sign up uninvited
    enterprise_license, \* the certificate text the store holds, if any
    seats,            \* LicenseServiceImpl::seats, the state of its lock and,
                      \* ghost, the time the count was read from the store
    calls,            \* calls[p]: the frame of p's call
    wrote,            \* ghost: wrote[p], the tables p's call has changed
    history           \* ghost: what has happened so far

store == <<users, invitations, refresh_tokens, password_resets>>
vars == <<users, invitations, refresh_tokens, password_resets, next_id, now,
          license_status, security_setting, enterprise_license, seats, calls, wrote, history>>

Option(S) == IF S = {} THEN {} ELSE {CHOOSE x \in S : TRUE}
The(S) == CHOOSE x \in S : TRUE

(***************************************************************************)
(* Credential hasher.  A hash string is a tuple: the empty string is <<>>, *)
(* a PHC string is <<"$argon2id", salt, digest>>, anything else does not   *)
(* parse.  Argon2 is ideal: the digest identifies (salt, password).        *)
(***************************************************************************)
EmptyHash == <<>>
InvalidHash == <<"invalid hash">>
Argon2(raw, salt) == <<salt, raw>>

password_hash(raw, salt) == <<"$argon2id", salt, Argon2(raw, salt)>>

PasswordHashNew(hash) == Len(hash) = 3 /\ hash[1] = "$argon2id"

\* A faulty variant: a string that does not parse verifies.
password_verify_unparsed(raw, hash) ==
    IF PasswordHashNew(hash)
    THEN Argon2(raw, hash[2]) = hash[3]
    ELSE TRUE

\* A faulty variant: a string that parses verifies.
password_verify_parsed(raw, hash) == PasswordHashNew(hash)

password_verify(raw, hash) ==
    IF PasswordHashNew(hash)
    THEN Argon2(raw, hash[2]) = hash[3]
    ELSE FALSE

(***************************************************************************)
(* The store.                                                              *)
(***************************************************************************)
UserIds == 1..Len(users)

get_user(id) == IF id \in UserIds THEN {users[id]} ELSE {}

get_user_id_by_email(email) == {id \in UserIds : users[id].email = email}

get_user_by_email(email) == {users[id] : id \in get_user_id_by_email(email)}

list_admin_users == {id \in UserIds : users[id].is_admin}

\* The row create_user inserts.  The owner is the account made admin while
\* no admin existed.
NewUser(email, password_encrypted, is_admin) ==
    [email |-> email, password_encrypted |-> password_encrypted,
     is_admin |-> is_admin, active |-> TRUE,
     is_owner |-> is_admin /\ list_admin_users = {}]

\* users.email is a unique key.
create_user_ok(email) == get_user_id_by_email(email) = {}

is_owner(user) == user.is_owner

get_invitation_by_code(code) == Option({i \in invitations : i.code = code})

get_invitation_by_email(email) == Option({i \in invitations : i.email = email})

get_invitation(id) == {i \in invitations : i.id = id}

get_refresh_token(token) == {t \in refresh_tokens : t.token = token}

is_expired(rt) == rt.expires_at < now

NewRefreshToken(user_id, token) ==
    [token |-> token, user_id |-> user_id, expires_at |-> now + RefreshTokenTTL,
     chain |-> token]

\* generate_refresh_token(): a fresh random string.
generate_refresh_token == <<"rt", next_id.token>>

\* generate_jwt(JWTPayload::new(email, is_admin))
generate_jwt(email, is_admin) == [sub |-> email, is_admin |-> is_admin]

(***************************************************************************)
(* Frames.                                                                 *)
(***************************************************************************)
Idle ==
    [op |-> "none", pc |-> "idle",
     \* arguments
     email |-> "", password |-> "", code |-> NoCode, token |-> NoToken,
     id |-> 0, flag |-> FALSE,
     \* locals
     is_admin_initialized |-> FALSE, invitation |-> {}, looked_up |-> FALSE,
     user |-> {}, user_id |-> 0, is_admin |-> FALSE, rt |-> {},
     password_encrypted |-> EmptyHash,
     utc_now |-> 0, license |-> <<>>, raw |-> {}, seats_used |-> 0, info |-> {},
     force_refresh |-> FALSE, refreshed |-> 0,
     \* the value returned
     ok |-> FALSE, err |-> "", access_token |-> {}, refresh_token |-> NoToken,
     refresh_expires_at |-> 0,
     \* ghost: what the properties of the call need of the store it started in
     pre |-> <<>>]

Free(p) == calls[p].pc \in {"idle", "done"}
At(p, op, pc) == calls[p].op = op /\ calls[p].pc = pc
Done(p, op) == At(p, op, "done")

Begin(op, pc) == [Idle EXCEPT !.op = op, !.pc = pc]
Err(c, e) == [c EXCEPT !.pc = "done", !.ok = FALSE, !.err = e]
Goto(c, pc) == [c EXCEPT !.pc = pc]

\* ghost: the tables a step changes, added to those p's call has changed;
\* a step of a free p starts a call.
Changed ==
    {t \in {"users", "invitations", "refresh_tokens", "password_resets",
             "enterprise_license"} :
       \/ t = "enterprise_license" /\ enterprise_license' # enterprise_license
       \/ t = "users" /\ users' # users
       \/ t = "invitations" /\ invitations' # invitations
       \/ t = "refresh_tokens" /\ refresh_tokens' # refresh_tokens
       \/ t = "password_resets" /\ password_resets' # password_resets}

Track(p) ==
    wrote' = [wrote EXCEPT ![p] = (IF Free(p) THEN {} ELSE @) \cup Changed]

\* Calls in flight that may insert a refresh token.
Issuing == {p \in Procs : calls[p].op \in {"register", "oauth", "token_auth", "refresh_token"}
                           /\ ~Free(p)}

CanIssueToken == next_id.token + Cardinality(Issuing) <= MaxTokens

Init ==
    /\ users = <<>>
    /\ invitations = {}
    /\ refresh_tokens = {}
    /\ password_resets = {}
    /\ next_id = [invitation |-> 1, token |-> 1, reset |-> 1]
    /\ now = 0
    /\ license_status \in {"Ok", "Expired"}
    /\ security_setting = [allowed_register_domain_list |-> {}]
    /\ enterprise_license = {}
    /\ seats = [refreshed |-> 0, count |-> 0, writer |-> 0, read_at |-> 0]
    /\ calls = [p \in Procs |-> Idle]
    /\ wrote = [p \in Procs |-> {}]
    /\ history = [consumed |-> {}, twice |-> {}, issued |-> {}, rotated |-> {},
                  used |-> {}, mailed |-> {}]

(***************************************************************************)
(* register                                                                *)
(***************************************************************************)
\* The invitation codes a client can present: none, one it made up, or one
\* the store has given out (codes are random: none is known beforehand).
Codes ==
    {NoCode, <<"abc">>} \cup {InvitationCode(n) : n \in 1..(next_id.invitation - 1)}

\* ghost: the store as register finds it when it is called.
RegisterPre(email, invitation_code) ==
    [admin |-> \E id \in UserIds : users[id].is_admin,
     invitation |-> {i \in invitations : i.code = invitation_code},
     registered |-> \E id \in UserIds : users[id].email = email,
     consumed |-> \E i \in history.consumed : i.code = invitation_code]

register_call(p, email, password, invitation_code) ==
    /\ Free(p)
    /\ CanIssueToken
    /\ calls' = [calls EXCEPT ![p] =
                   [Begin("register", "is_admin_initialized")
                      EXCEPT !.email = email, !.password = password,
                             !.code = invitation_code,
                             !.pre = RegisterPre(email, invitation_code)]]
    /\ UNCHANGED <<users, invitations, refresh_tokens, password_resets, next_id,
                   now, license_status, security_setting, enterprise_license, seats, history>>
    /\ Track(p)

is_admin_initialized == list_admin_users # {}

register_is_admin_initialized(p) ==
    /\ At(p, "register", "is_admin_initialized")
    /\ calls' = [calls EXCEPT ![p] =
                   [Goto(@, "check_invitation")
                      EXCEPT !.is_admin_initialized = is_admin_initialized]]
    /\ UNCHANGED <<users, invitations, refresh_tokens, password_resets, next_id,
                   now, license_status, security_setting, enterprise_license, seats, history>>
    /\ Track(p)

\* A faulty variant: the invitation's email is not compared with the one to register.
check_invitation_any_email(admin_initialized, invitation_code, email) ==
    IF ~admin_initialized
    THEN [ok |-> TRUE, invitation |-> {}, looked_up |-> FALSE]
    ELSE IF invitation_code = NoCode
    THEN [ok |-> FALSE, invitation |-> {}, looked_up |-> FALSE]
    ELSE LET found == get_invitation_by_code(invitation_code) IN
         IF found = {}
         THEN [ok |-> FALSE, invitation |-> {}, looked_up |-> TRUE]
         ELSE [ok |-> TRUE, invitation |-> found, looked_up |-> TRUE]

\* Ok(Some(invitation)), Ok(None) or Err; looked_up: the store was asked.
check_invitation(admin_initialized, invitation_code, email) ==
    IF ~admin_initialized
    THEN [ok |-> TRUE, invitation |-> {}, looked_up |-> FALSE]
    ELSE IF invitation_code = NoCode
    THEN [ok |-> FALSE, invitation |-> {}, looked_up |-> FALSE]
    ELSE LET found == get_invitation_by_code(invitation_code) IN
         IF found = {}
         THEN [ok |-> FALSE, invitation |-> {}, looked_up |-> TRUE]
         ELSE IF The(found).email # email
         THEN [ok |-> FALSE, invitation |-> {}, looked_up |-> TRUE]
         ELSE [ok |-> TRUE, invitation |-> found, looked_up |-> TRUE]

register_check_invitation(p) ==
    /\ At(p, "register", "check_invitation")
    /\ LET c == calls[p]
           r == check_invitation(c.is_admin_initialized, c.code, c.email)
       IN calls' = [calls EXCEPT ![p] =
                      IF r.ok
                      THEN [Goto(@, "get_user_by_email")
                              EXCEPT !.invitation = r.invitation,
                                     !.looked_up = r.looked_up]
                      ELSE [Err(@, "Invitation code is not valid")
                              EXCEPT !.looked_up = r.looked_up]]
    /\ UNCHANGED <<users, invitations, refresh_tokens, password_resets, next_id,
                   now, license_status, security_setting, enterprise_license, seats, history>>
    /\ Track(p)

\* A faulty variant: the email is not looked up before the account is made.
register_email_taken_never(user) == FALSE

\* if self.db.get_user_by_email(&email).await?.is_some()
register_email_taken(user) == user # {}

register_get_user_by_email(p) ==
    /\ At(p, "register", "get_user_by_email")
    /\ calls' = [calls EXCEPT ![p] =
                   IF register_email_taken(get_user_by_email(@.email))
                   THEN Err(@, "Email is already registered")
                   ELSE Goto(@, "create_user")]
    /\ UNCHANGED <<users, invitations, refresh_tokens, password_resets, next_id,
                   now, license_status, security_setting, enterprise_license, seats, history>>
    /\ Track(p)

\* A faulty variant: the flag passed on as it is.
register_is_admin_not_negated(admin_initialized) == admin_initialized

\* The admin flag register gives the account it creates.
register_is_admin(admin_initialized) == ~admin_initialized

\* A faulty variant: the account is always created by create_user.
register_never_uses_invitation(invitation) == FALSE

\* if let Some(invitation) = invitation
register_uses_invitation(invitation) == invitation # {}

\* create_user_with_invitation: the insert and the delete are one transaction.
create_user_with_invitation_ok(email, invitation_id) ==
    create_user_ok(email) /\ get_invitation(invitation_id) # {}

\* ghost: the invitations a successful register held, and those among them
\* that a register had held before.
Registered(c) ==
    LET held == {[id |-> i.id, code |-> i.code] : i \in c.invitation}
    IN [history EXCEPT !.consumed = @ \cup held,
                       !.twice = @ \cup (held \cap history.consumed)]

\* password_hash, then create_user_with_invitation or create_user.
register_create_user(p) ==
    /\ At(p, "register", "create_user")
    /\ \E salt \in Salts :
         LET c == calls[p]
             pwd_hash == password_hash(c.password, salt)
             row == NewUser(c.email, pwd_hash, register_is_admin(c.is_admin_initialized))
         IN IF register_uses_invitation(c.invitation)
            THEN IF create_user_with_invitation_ok(c.email, The(c.invitation).id)
                 THEN /\ users' = Append(users, row)
                      /\ invitations' = invitations \ get_invitation(The(c.invitation).id)
                      /\ history' = Registered(c)
                      /\ calls' = [calls EXCEPT ![p] =
                                     [Goto(@, "get_user") EXCEPT !.user_id = Len(users) + 1]]
                 ELSE /\ calls' = [calls EXCEPT ![p] = Err(@, "store")]
                      /\ UNCHANGED <<users, invitations, history>>
            ELSE IF create_user_ok(c.email)
                 THEN /\ users' = Append(users, row)
                      /\ history' = Registered(c)
                      /\ calls' = [calls EXCEPT ![p] =
                                     [Goto(@, "get_user") EXCEPT !.user_id = Len(users) + 1]]
                      /\ UNCHANGED invitations
                 ELSE /\ calls' = [calls EXCEPT ![p] = Err(@, "store")]
                      /\ UNCHANGED <<users, invitations, history>>
    /\ UNCHANGED <<refresh_tokens, password_resets, next_id, now, license_status, security_setting, enterprise_license, seats>>
    /\ Track(p)

register_get_user(p) ==
    /\ At(p, "register", "get_user")
    /\ calls' = [calls EXCEPT ![p] =
                   [Goto(@, "create_refresh_token")
                      EXCEPT !.user = get_user(calls[p].user_id)]]
    /\ UNCHANGED <<users, invitations, refresh_tokens, password_resets, next_id,
                   now, license_status, security_setting, enterprise_license, seats, history>>
    /\ Track(p)

\* generate_refresh_token, create_refresh_token, generate_jwt, Ok(resp).
register_create_refresh_token(p) ==
    /\ At(p, "register", "create_refresh_token")
    /\ LET c == calls[p]
           refresh_token == generate_refresh_token
           row == NewRefreshToken(c.user_id, refresh_token)
       IN /\ refresh_tokens' = refresh_tokens \cup {row}
          /\ next_id' = [next_id EXCEPT !.token = @ + 1]
          /\ history' = [history EXCEPT !.issued = @ \cup {row}]
          /\ calls' = [calls EXCEPT ![p] =
                         [Goto(@, "done")
                            EXCEPT !.ok = TRUE,
                                   !.access_token =
                                       {generate_jwt(The(c.user).email, The(c.user).is_admin)},
                                   !.refresh_token = refresh_token]]
    /\ UNCHANGED <<users, invitations, password_resets, now, license_status, security_setting, enterprise_license, seats>>
    /\ Track(p)

\* create_refresh_token, then generate_jwt returns Err: Err("Unknown error").
register_generate_jwt_fails(p) ==
    /\ At(p, "register", "create_refresh_token")
    /\ LET c == calls[p]
           refresh_token == generate_refresh_token
           row == NewRefreshToken(c.user_id, refresh_token)
       IN /\ refresh_tokens' = refresh_tokens \cup {row}
          /\ next_id' = [next_id EXCEPT !.token = @ + 1]
          /\ history' = [history EXCEPT !.issued = @ \cup {row}]
          /\ calls' = [calls EXCEPT ![p] = Err(@, "Unknown error")]
    /\ UNCHANGED <<users, invitations, password_resets, now, license_status,
                   security_setting, enterprise_license, seats>>
    /\ Track(p)

\* self.db.create_refresh_token(id, &refresh_token).await? where the store
\* returns Err: the error is passed on.
register_create_refresh_token_fails(p) ==
    /\ At(p, "register", "create_refresh_token")
    /\ calls' = [calls EXCEPT ![p] = Err(@, "store")]
    /\ UNCHANGED <<users, invitations, refresh_tokens, password_resets, next_id,
                   now, license_status, security_setting, enterprise_license,
                   seats, history>>
    /\ Track(p)

(***************************************************************************)
(* create_invitation, delete_invitation                                    *)
(***************************************************************************)
create_invitation_call(p, email) ==
    /\ Free(p)
    /\ next_id.invitation <= MaxInvitations
    /\ \A q \in Procs : ~(calls[q].op = "create_invitation" /\ ~Free(q))
    /\ calls' = [calls EXCEPT ![p] =
                   [Begin("create_invitation", "read_license") EXCEPT !.email = email]]
    /\ UNCHANGED <<users, invitations, refresh_tokens, password_resets, next_id,
                   now, license_status, security_setting, enterprise_license, seats, history>>
    /\ Track(p)

\* self.license.read_license().await.is_license_valid()
is_license_valid == license_status = "Ok"

\* A faulty variant: the license is read and not looked at.
create_invitation_refuses_never(valid) == FALSE

\* if !self.license.read_license().await.is_license_valid()
create_invitation_refuses(valid) == ~valid

create_invitation_read_license(p) ==
    /\ At(p, "create_invitation", "read_license")
    /\ calls' = [calls EXCEPT ![p] =
                   IF create_invitation_refuses(is_license_valid)
                   THEN Err(@, "InvalidLicense")
                   ELSE Goto(@, "create_invitation")]
    /\ UNCHANGED <<users, invitations, refresh_tokens, password_resets, next_id,
                   now, license_status, security_setting, enterprise_license, seats, history>>
    /\ Track(p)

NewInvitation(email) ==
    [id |-> next_id.invitation, email |-> email,
     code |-> InvitationCode(next_id.invitation)]

\* db.create_invitation, then send_invitation_email, whose outcome is dropped;
\* ghost: history.mailed, the codes handed to the mail service.
create_invitation_create(p) ==
    /\ At(p, "create_invitation", "create_invitation")
    /\ invitations' = invitations \cup {NewInvitation(calls[p].email)}
    /\ next_id' = [next_id EXCEPT !.invitation = @ + 1]
    /\ history' = [history EXCEPT
                     !.mailed = @ \cup {InvitationCode(next_id.invitation)}]
    /\ calls' = [calls EXCEPT ![p] =
                   [Goto(@, "done")
                      EXCEPT !.ok = TRUE, !.id = next_id.invitation,
                             !.code = InvitationCode(next_id.invitation)]]
    /\ UNCHANGED <<users, refresh_tokens, password_resets, now, license_status, security_setting, enterprise_license, seats>>
    /\ Track(p)

\* db.delete_invitation(id) fails when no row has the id.
delete_invitation(p, id) ==
    /\ Free(p)
    /\ LET c == [Begin("delete_invitation", "done")
                   EXCEPT !.id = id,
                          !.pre = [consumed |-> \E i \in history.consumed : i.id = id]]
       IN IF get_invitation(id) # {}
          THEN /\ invitations' = invitations \ get_invitation(id)
               /\ calls' = [calls EXCEPT ![p] = [c EXCEPT !.ok = TRUE]]
          ELSE /\ calls' = [calls EXCEPT ![p] = Err(c, "store")]
               /\ UNCHANGED invitations
    /\ UNCHANGED <<users, refresh_tokens, password_resets, next_id, now,
                   license_status, security_setting, enterprise_license, seats, history>>
    /\ Track(p)

(***************************************************************************)
(* The store, used directly as the tests do.                               *)
(***************************************************************************)
\* db.create_user(email, password_encrypted, is_admin)
create_user(email, password_encrypted, is_admin) ==
    /\ \A p \in Procs : Free(p)
    /\ create_user_ok(email)
    /\ users' = Append(users, NewUser(email, password_encrypted, is_admin))
    /\ UNCHANGED <<invitations, refresh_tokens, password_resets, next_id, now,
                   license_status, security_setting, enterprise_license, seats, calls, wrote, history>>

\* db.update_user_active(id, active), of an account that is not the owner:
\* the service lets nobody change the owner's.
db_update_user_active(id, active) ==
    /\ \A p \in Procs : Free(p)
    /\ id \in UserIds
    /\ ~is_owner(users[id])
    /\ users[id].active # active
    /\ users' = [users EXCEPT ![id].active = active]
    /\ UNCHANGED <<invitations, refresh_tokens, password_resets, next_id, now,
                   license_status, security_setting, enterprise_license, seats, calls, wrote, history>>

(***************************************************************************)
(* Time, update_user_active                                                *)
(***************************************************************************)
\* Utc::now() advances, up to limit.
Tick(limit) ==
    /\ now < limit
    /\ now' = now + 1
    /\ UNCHANGED <<users, invitations, refresh_tokens, password_resets, next_id,
                   license_status, security_setting, enterprise_license, seats, calls, wrote, history>>

update_user_active_call(p, id, active) ==
    /\ Free(p)
    /\ calls' = [calls EXCEPT ![p] =
                   [Begin("update_user_active", "get_user")
                      EXCEPT !.id = id, !.flag = active]]
    /\ UNCHANGED <<users, invitations, refresh_tokens, password_resets, next_id,
                   now, license_status, security_setting, enterprise_license, seats, history>>
    /\ Track(p)

\* A faulty variant: the owner can be disabled like anyone.
update_user_active_refuses_nobody(user) == FALSE

\* if user.is_owner() { Err(...) }
update_user_active_refuses(user) == is_owner(user)

update_user_active_get_user(p) ==
    /\ At(p, "update_user_active", "get_user")
    /\ LET user == get_user(calls[p].id)
       IN calls' = [calls EXCEPT ![p] =
                      IF user = {}
                      THEN Err(@, "User doesn't exits")
                      ELSE IF update_user_active_refuses(The(user))
                      THEN Err(@, "The owner's active status cannot be changed")
                      ELSE Goto(@, "update_user_active")]
    /\ UNCHANGED <<users, invitations, refresh_tokens, password_resets, next_id,
                   now, license_status, security_setting, enterprise_license, seats, history>>
    /\ Track(p)

\* db.update_user_active(id, active)
update_user_active_update(p) ==
    /\ At(p, "update_user_active", "update_user_active")
    /\ LET c == calls[p]
       IN IF c.id \in UserIds
          THEN /\ users' = [users EXCEPT ![c.id].active = c.flag]
               /\ calls' = [calls EXCEPT ![p] = [Goto(@, "done") EXCEPT !.ok = TRUE]]
          ELSE /\ calls' = [calls EXCEPT ![p] = Err(@, "store")]
               /\ UNCHANGED users
    /\ UNCHANGED <<invitations, refresh_tokens, password_resets, next_id, now,
                   license_status, security_setting, enterprise_license, seats, history>>
    /\ Track(p)

(***************************************************************************)
(* update_user_role                                                        *)
(***************************************************************************)
update_user_role_call(p, id, is_admin) ==
    /\ Free(p)
    /\ calls' = [calls EXCEPT ![p] =
                   [Begin("update_user_role", "get_user")
                      EXCEPT !.id = id, !.flag = is_admin]]
    /\ UNCHANGED <<users, invitations, refresh_tokens, password_resets, next_id,
                   now, license_status, security_setting, enterprise_license, seats, history>>
    /\ Track(p)

\* A faulty variant: the owner's role can be changed like anyone's.
update_user_role_refuses_nobody(user) == FALSE

\* if user.is_owner() { Err(...) }
update_user_role_refuses(user) == is_owner(user)

update_user_role_get_user(p) ==
    /\ At(p, "update_user_role", "get_user")
    /\ LET user == get_user(calls[p].id)
       IN calls' = [calls EXCEPT ![p] =
                      IF user = {}
                      THEN Err(@, "User doesn't exits")
                      ELSE IF update_user_role_refuses(The(user))
                      THEN Err(@, "The owner's admin status cannot be changed")
                      ELSE Goto(@, "update_user_role")]
    /\ UNCHANGED <<users, invitations, refresh_tokens, password_resets, next_id,
                   now, license_status, security_setting, enterprise_license, seats, history>>
    /\ Track(p)

\* db.update_user_role(id, is_admin)
update_user_role_update(p) ==
    /\ At(p, "update_user_role", "update_user_role")
    /\ LET c == calls[p]
       IN IF c.id \in UserIds
          THEN /\ users' = [users EXCEPT ![c.id].is_admin = c.flag]
               /\ calls' = [calls EXCEPT ![p] = [Goto(@, "done") EXCEPT !.ok = TRUE]]
          ELSE /\ calls' = [calls EXCEPT ![p] = Err(@, "store")]
               /\ UNCHANGED users
    /\ UNCHANGED <<invitations, refresh_tokens, password_resets, next_id, now,
                   license_status, security_setting, enterprise_license, seats, history>>
    /\ Track(p)

(***************************************************************************)
(* oauth and get_or_create_oauth_user.  The provider's client is the       *)
(* caller: email is the address fetch_user_email verified.                 *)
(***************************************************************************)
\* read_security_setting().can_register_without_invitation(email): the
\* domain of the email is on the administrator's list.
can_register_without_invitation(email) ==
    Domain(email) \in security_setting.allowed_register_domain_list

\* db.update_security_setting(allowed_register_domain_list, ..), as the
\* tests configure the policy.
update_security_setting(domains) ==
    /\ \A p \in Procs : Free(p)
    /\ security_setting.allowed_register_domain_list # domains
    /\ security_setting' = [allowed_register_domain_list |-> domains]
    /\ UNCHANGED <<users, invitations, refresh_tokens, password_resets, next_id,
                   now, license_status, enterprise_license, seats, calls, wrote,
                   history>>

(***************************************************************************)
(* request_invitation_email                                                *)
(***************************************************************************)
\* ghost: the store as request_invitation_email finds it when it is called.
RequestInvitationPre(email) ==
    [allowed |-> can_register_without_invitation(email),
     invitations |-> invitations,
     mailed |-> history.mailed]

request_invitation_email_call(p, email) ==
    /\ Free(p)
    /\ next_id.invitation <= MaxInvitations
    /\ calls' = [calls EXCEPT ![p] =
                   [Begin("request_invitation_email", "read_security_setting")
                      EXCEPT !.email = email, !.pre = RequestInvitationPre(email)]]
    /\ UNCHANGED <<users, invitations, refresh_tokens, password_resets, next_id,
                   now, license_status, security_setting, enterprise_license,
                   seats, history>>
    /\ Track(p)

\* A faulty variant: the policy is read and not looked at.
request_invitation_email_refuses_never(allowed) == FALSE

\* if !..read_security_setting().await?.can_register_without_invitation(email)
request_invitation_email_refuses(allowed) == ~allowed

request_invitation_email_read_security_setting(p) ==
    /\ At(p, "request_invitation_email", "read_security_setting")
    /\ calls' = [calls EXCEPT ![p] =
                   IF request_invitation_email_refuses(
                        can_register_without_invitation(calls[p].email))
                   THEN Err(@, "Your email does not belong to any known authentication domains")
                   ELSE Goto(@, "read_license")]
    /\ UNCHANGED <<users, invitations, refresh_tokens, password_resets, next_id,
                   now, license_status, security_setting, enterprise_license,
                   seats, history>>
    /\ Track(p)

\* AuthenticationService::create_invitation(self, input.email): its license
\* gate.
request_invitation_email_read_license(p) ==
    /\ At(p, "request_invitation_email", "read_license")
    /\ calls' = [calls EXCEPT ![p] =
                   IF create_invitation_refuses(is_license_valid)
                   THEN Err(@, "InvalidLicense")
                   ELSE Goto(@, "create_invitation")]
    /\ UNCHANGED <<users, invitations, refresh_tokens, password_resets, next_id,
                   now, license_status, security_setting, enterprise_license,
                   seats, history>>
    /\ Track(p)

\* AuthenticationService::create_invitation(self, input.email): the insert
\* and the mail.
request_invitation_email_create(p) ==
    /\ At(p, "request_invitation_email", "create_invitation")
    /\ invitations' = invitations \cup {NewInvitation(calls[p].email)}
    /\ next_id' = [next_id EXCEPT !.invitation = @ + 1]
    /\ history' = [history EXCEPT
                     !.mailed = @ \cup {InvitationCode(next_id.invitation)}]
    /\ calls' = [calls EXCEPT ![p] =
                   [Goto(@, "done")
                      EXCEPT !.ok = TRUE, !.id = next_id.invitation,
                             !.code = InvitationCode(next_id.invitation)]]
    /\ UNCHANGED <<users, refresh_tokens, password_resets, now, license_status,
                   security_setting, enterprise_license, seats>>
    /\ Track(p)

\* ghost: the store as oauth finds it when it is called.
OAuthPre(email) ==
    [user |-> get_user_id_by_email(email),
     active |-> \E user \in get_user_by_email(email) : user.active,
     is_admin |-> \E user \in get_user_by_email(email) : user.is_admin,
     allowed |-> can_register_without_invitation(email),
     invitation |-> {i.id : i \in {j \in invitations : j.email = email}},
     users |-> Len(users),
     invitations |-> {i.id : i \in invitations}]

oauth_call(p, email) ==
    /\ Free(p)
    /\ CanIssueToken
    /\ calls' = [calls EXCEPT ![p] =
                   [Begin("oauth", "get_user_by_email")
                      EXCEPT !.email = email, !.pre = OAuthPre(email)]]
    /\ UNCHANGED <<users, invitations, refresh_tokens, password_resets, next_id,
                   now, license_status, security_setting, enterprise_license,
                   seats, history>>
    /\ Track(p)

\* A faulty variant: a disabled account is let in.
get_or_create_oauth_user_admits_any(user) == TRUE

\* user.active.then_some((user.id, user.is_admin)).ok_or(UserDisabled)
get_or_create_oauth_user_admits(user) == user.active

oauth_get_user_by_email(p) ==
    /\ At(p, "oauth", "get_user_by_email")
    /\ LET c == calls[p]
           user == get_user_by_email(c.email)
       IN calls' = [calls EXCEPT ![p] =
                      IF user = {}
                      THEN Goto(@, "read_security_setting")
                      ELSE IF get_or_create_oauth_user_admits(The(user))
                      THEN [Goto(@, "create_refresh_token")
                              EXCEPT !.user_id = The(get_user_id_by_email(c.email)),
                                     !.is_admin = The(user).is_admin]
                      ELSE Err(@, "UserDisabled")]
    /\ UNCHANGED <<users, invitations, refresh_tokens, password_resets, next_id,
                   now, license_status, security_setting, enterprise_license,
                   seats, history>>
    /\ Track(p)

oauth_read_security_setting(p) ==
    /\ At(p, "oauth", "read_security_setting")
    /\ calls' = [calls EXCEPT ![p] =
                   IF can_register_without_invitation(calls[p].email)
                   THEN Goto(@, "create_user")
                   ELSE Goto(@, "get_invitation_by_email")]
    /\ UNCHANGED <<users, invitations, refresh_tokens, password_resets, next_id,
                   now, license_status, security_setting, enterprise_license,
                   seats, history>>
    /\ Track(p)

\* A faulty variant: the account gets the hash of a password.
get_or_create_oauth_user_password_known == password_hash("pw1", 1)

\* "".to_owned()
get_or_create_oauth_user_password == EmptyHash

\* db.create_user(email, "", false), Ok((id, false))
oauth_create_user(p) ==
    /\ At(p, "oauth", "create_user")
    /\ LET c == calls[p]
       IN IF create_user_ok(c.email)
          THEN /\ users' = Append(users,
                                  NewUser(c.email, get_or_create_oauth_user_password,
                                          FALSE))
               /\ calls' = [calls EXCEPT ![p] =
                              [Goto(@, "create_refresh_token")
                                 EXCEPT !.user_id = Len(users) + 1,
                                        !.is_admin = FALSE]]
          ELSE /\ calls' = [calls EXCEPT ![p] = Err(@, "store")]
               /\ UNCHANGED users
    /\ UNCHANGED <<invitations, refresh_tokens, password_resets, next_id, now,
                   license_status, security_setting, enterprise_license, seats,
                   history>>
    /\ Track(p)

\* db.get_invitation_by_email(email).await.ok().flatten()
oauth_get_invitation_by_email(p) ==
    /\ At(p, "oauth", "get_invitation_by_email")
    /\ LET invitation == get_invitation_by_email(calls[p].email)
       IN calls' = [calls EXCEPT ![p] =
                      IF invitation = {}
                      THEN Err(@, "UserNotInvited")
                      ELSE [Goto(@, "create_user_with_invitation")
                              EXCEPT !.invitation = invitation]]
    /\ UNCHANGED <<users, invitations, refresh_tokens, password_resets, next_id,
                   now, license_status, security_setting, enterprise_license,
                   seats, history>>
    /\ Track(p)

\* A faulty variant: the invited account is made an admin.
get_or_create_oauth_user_invited_as_admin == TRUE

\* create_user_with_invitation(.., false, ..)
get_or_create_oauth_user_invited_is_admin == FALSE

\* create_user_with_invitation: what the transaction leaves of invitations.
create_user_with_invitation_deletes(invitation_id) ==
    invitations \ get_invitation(invitation_id)

\* db.create_user_with_invitation(email, "", false, invitation.id)
oauth_create_user_with_invitation(p) ==
    /\ At(p, "oauth", "create_user_with_invitation")
    /\ LET c == calls[p]
           invitation_id == The(c.invitation).id
       IN IF create_user_with_invitation_ok(c.email, invitation_id)
          THEN /\ users' = Append(users,
                                  NewUser(c.email, get_or_create_oauth_user_password,
                                          get_or_create_oauth_user_invited_is_admin))
               /\ invitations' = create_user_with_invitation_deletes(invitation_id)
               /\ calls' = [calls EXCEPT ![p] =
                              [Goto(@, "get_user") EXCEPT !.user_id = Len(users) + 1]]
          ELSE /\ calls' = [calls EXCEPT ![p] = Err(@, "store")]
               /\ UNCHANGED <<users, invitations>>
    /\ UNCHANGED <<refresh_tokens, password_resets, next_id, now, license_status,
                   security_setting, enterprise_license, seats, history>>
    /\ Track(p)

\* let user = db.get_user(id).await?.unwrap(); Ok((user.id, user.is_admin))
oauth_get_user(p) ==
    /\ At(p, "oauth", "get_user")
    /\ LET user == get_user(calls[p].user_id)
       IN calls' = [calls EXCEPT ![p] =
                      IF user = {}
                      THEN Err(@, "store")
                      ELSE [Goto(@, "create_refresh_token")
                              EXCEPT !.is_admin = The(user).is_admin]]
    /\ UNCHANGED <<users, invitations, refresh_tokens, password_resets, next_id,
                   now, license_status, security_setting, enterprise_license,
                   seats, history>>
    /\ Track(p)

\* generate_refresh_token, create_refresh_token, generate_jwt, Ok(resp).
oauth_create_refresh_token(p) ==
    /\ At(p, "oauth", "create_refresh_token")
    /\ LET c == calls[p]
           refresh_token == generate_refresh_token
           row == NewRefreshToken(c.user_id, refresh_token)
       IN /\ refresh_tokens' = refresh_tokens \cup {row}
          /\ next_id' = [next_id EXCEPT !.token = @ + 1]
          /\ history' = [history EXCEPT !.issued = @ \cup {row}]
          /\ calls' = [calls EXCEPT ![p] =
                         [Goto(@, "done")
                            EXCEPT !.ok = TRUE,
                                   !.access_token = {generate_jwt(c.email, c.is_admin)},
                                   !.refresh_token = refresh_token]]
    /\ UNCHANGED <<users, invitations, password_resets, now, license_status,
                   security_setting, enterprise_license, seats>>
    /\ Track(p)

\* create_refresh_token, then generate_jwt returns Err: OAuthError::Unknown.
oauth_generate_jwt_fails(p) ==
    /\ At(p, "oauth", "create_refresh_token")
    /\ LET c == calls[p]
           refresh_token == generate_refresh_token
           row == NewRefreshToken(c.user_id, refresh_token)
       IN /\ refresh_tokens' = refresh_tokens \cup {row}
          /\ next_id' = [next_id EXCEPT !.token = @ + 1]
          /\ history' = [history EXCEPT !.issued = @ \cup {row}]
          /\ calls' = [calls EXCEPT ![p] = Err(@, "Unknown error")]
    /\ UNCHANGED <<users, invitations, password_resets, now, license_status,
                   security_setting, enterprise_license, seats>>
    /\ Track(p)

(***************************************************************************)
(* token_auth                                                              *)
(***************************************************************************)
\* ghost: the store as token_auth finds it when it is called.  The password
\* is wrong when it is not the one the stored hash was made from.
TokenAuthPre(email, password) ==
    [known |-> get_user_by_email(email) # {},
     active |-> \E user \in get_user_by_email(email) : user.active,
     wrong |-> \A user \in get_user_by_email(email), salt \in Salts :
                 password_hash(password, salt) # user.password_encrypted,
     rows |-> refresh_tokens,
     issued |-> {t.token : t \in history.issued} \cup history.rotated
                  \cup {t.token : t \in refresh_tokens}]

token_auth_call(p, email, password) ==
    /\ Free(p)
    /\ CanIssueToken
    /\ calls' = [calls EXCEPT ![p] =
                   [Begin("token_auth", "get_user_by_email")
                      EXCEPT !.email = email, !.password = password,
                             !.pre = TokenAuthPre(email, password)]]
    /\ UNCHANGED <<users, invitations, refresh_tokens, password_resets, next_id,
                   now, license_status, security_setting, enterprise_license, seats, history>>
    /\ Track(p)

\* A faulty variant: the password is not verified.
token_auth_password_unchecked(password, user) == TRUE

\* password_verify(&password, &user.password_encrypted)
token_auth_password_ok(password, user) ==
    password_verify(password, user.password_encrypted)

\* A faulty variant: the password is verified before the active flag is
\* looked at.
token_auth_rejects_password_first(password, user) ==
    IF ~token_auth_password_ok(password, user) THEN "Password is not valid"
    ELSE IF ~user.active THEN "User is disabled"
    ELSE ""

\* if !user.active { Err } if !password_verify(..) { Err }: the error, "" when
\* there is none.
token_auth_rejects(password, user) ==
    IF ~user.active THEN "User is disabled"
    ELSE IF ~token_auth_password_ok(password, user) THEN "Password is not valid"
    ELSE ""

token_auth_get_user_by_email(p) ==
    /\ At(p, "token_auth", "get_user_by_email")
    /\ LET c == calls[p]
           user == get_user_by_email(c.email)
       IN calls' = [calls EXCEPT ![p] =
                      IF user = {}
                      THEN Err(@, "User not found")
                      ELSE IF token_auth_rejects(c.password, The(user)) # ""
                      THEN Err(@, token_auth_rejects(c.password, The(user)))
                      ELSE [Goto(@, "create_refresh_token")
                              EXCEPT !.user = user,
                                     !.user_id = The(get_user_id_by_email(c.email))]]
    /\ UNCHANGED <<users, invitations, refresh_tokens, password_resets, next_id,
                   now, license_status, security_setting, enterprise_license, seats, history>>
    /\ Track(p)

\* generate_refresh_token, create_refresh_token, generate_jwt, Ok(resp).
token_auth_create_refresh_token(p) ==
    /\ At(p, "token_auth", "create_refresh_token")
    /\ LET c == calls[p]
           refresh_token == generate_refresh_token
           row == NewRefreshToken(c.user_id, refresh_token)
       IN /\ refresh_tokens' = refresh_tokens \cup {row}
          /\ next_id' = [next_id EXCEPT !.token = @ + 1]
          /\ history' = [history EXCEPT !.issued = @ \cup {row}]
          /\ calls' = [calls EXCEPT ![p] =
                         [Goto(@, "done")
                            EXCEPT !.ok = TRUE,
                                   !.access_token =
                                       {generate_jwt(The(c.user).email, The(c.user).is_admin)},
                                   !.refresh_token = refresh_token]]
    /\ UNCHANGED <<users, invitations, password_resets, now, license_status, security_setting, enterprise_license, seats>>
    /\ Track(p)

\* create_refresh_token, then generate_jwt returns Err: Err("Unknown error").
token_auth_generate_jwt_fails(p) ==
    /\ At(p, "token_auth", "create_refresh_token")
    /\ LET c == calls[p]
           refresh_token == generate_refresh_token
           row == NewRefreshToken(c.user_id, refresh_token)
       IN /\ refresh_tokens' = refresh_tokens \cup {row}
          /\ next_id' = [next_id EXCEPT !.token = @ + 1]
          /\ history' = [history EXCEPT !.issued = @ \cup {row}]
          /\ calls' = [calls EXCEPT ![p] = Err(@, "Unknown error")]
    /\ UNCHANGED <<users, invitations, password_resets, now, license_status,
                   security_setting, enterprise_license, seats>>
    /\ Track(p)

(***************************************************************************)
(* refresh_token                                                           *)
(***************************************************************************)
\* The refresh tokens a client can present: one it made up, or one that was
\* given out (tokens are random: none is known beforehand).
Tokens == {<<"bogus">>} \cup {<<"rt", n>> : n \in 1..(next_id.token - 1)}

\* ghost: the store as refresh_token finds it when it is called.
RefreshTokenPre(token) ==
    [known |-> get_refresh_token(token) # {},
     expires_at |-> {t.expires_at : t \in get_refresh_token(token)},
     expired |-> \E t \in get_refresh_token(token) : t.expires_at < now,
     inactive |-> \E t \in get_refresh_token(token) :
                    \E user \in get_user(t.user_id) : ~user.active,
     rotated |-> token \in history.rotated]

refresh_token_call(p, token) ==
    /\ Free(p)
    /\ CanIssueToken
    /\ calls' = [calls EXCEPT ![p] =
                   [Begin("refresh_token", "get_refresh_token")
                      EXCEPT !.token = token, !.pre = RefreshTokenPre(token)]]
    /\ UNCHANGED <<users, invitations, refresh_tokens, password_resets, next_id,
                   now, license_status, security_setting, enterprise_license, seats, history>>
    /\ Track(p)

\* db.get_refresh_token(&token), then refresh_token.is_expired()
refresh_token_get_refresh_token(p) ==
    /\ At(p, "refresh_token", "get_refresh_token")
    /\ LET rt == get_refresh_token(calls[p].token)
       IN calls' = [calls EXCEPT ![p] =
                      IF rt = {}
                      THEN Err(@, "Invalid refresh token")
                      ELSE IF is_expired(The(rt))
                      THEN Err(@, "Expired refresh token")
                      ELSE [Goto(@, "get_user") EXCEPT !.rt = rt]]
    /\ UNCHANGED <<users, invitations, refresh_tokens, password_resets, next_id,
                   now, license_status, security_setting, enterprise_license, seats, history>>
    /\ Track(p)

\* A faulty variant: a disabled account may refresh.
refresh_token_user_any(user) == TRUE

\* if !user.active { return Err(..) }
refresh_token_user_active(user) == user.active

refresh_token_get_user(p) ==
    /\ At(p, "refresh_token", "get_user")
    /\ LET user == get_user(The(calls[p].rt).user_id)
       IN calls' = [calls EXCEPT ![p] =
                      IF user = {}
                      THEN Err(@, "User not found")
                      ELSE IF ~refresh_token_user_active(The(user))
                      THEN Err(@, "User is disabled")
                      ELSE [Goto(@, "replace_refresh_token") EXCEPT !.user = user]]
    /\ UNCHANGED <<users, invitations, refresh_tokens, password_resets, next_id,
                   now, license_status, security_setting, enterprise_license, seats, history>>
    /\ Track(p)

\* db.replace_refresh_token(old, new): the row of old gets the string new.
replace_refresh_token(old, new) ==
    (refresh_tokens \ get_refresh_token(old))
      \cup {[t EXCEPT !.token = new] : t \in get_refresh_token(old)}

\* db.replace_refresh_token fails when no row has the string old.
replace_refresh_token_ok(old) == get_refresh_token(old) # {}

\* A faulty variant: the new token is inserted and the old one stays.
refresh_token_insert(token, new_token) ==
    refresh_tokens \cup {[t EXCEPT !.token = new_token] : t \in get_refresh_token(token)}

\* self.db.replace_refresh_token(&token, &new_token)
refresh_token_rotate(token, new_token) == replace_refresh_token(token, new_token)

\* A faulty variant: the outcome of replace_refresh_token is dropped.
refresh_token_replace_unchecked(replaced) == TRUE

\* self.db.replace_refresh_token(&token, &new_token).await?
refresh_token_replace_checked(replaced) == replaced

\* A faulty variant: the expiry slides forward with the rotation.
refresh_token_sliding_expires_at(rt) == now + RefreshTokenTTL

\* RefreshTokenResponse::new(access_token, new_token, refresh_token.expires_at)
refresh_token_response_expires_at(rt) == rt.expires_at

\* generate_refresh_token, replace_refresh_token, generate_jwt, Ok(resp).
refresh_token_replace_refresh_token(p) ==
    /\ At(p, "refresh_token", "replace_refresh_token")
    /\ LET c == calls[p]
           new_token == generate_refresh_token
           replaced == replace_refresh_token_ok(c.token)
       IN /\ refresh_tokens' = IF replaced
                               THEN refresh_token_rotate(c.token, new_token)
                               ELSE refresh_tokens
          /\ next_id' = [next_id EXCEPT !.token = @ + 1]
          /\ history' = IF replaced
                        THEN [history EXCEPT !.rotated = @ \cup {c.token}]
                        ELSE history
          /\ calls' = [calls EXCEPT ![p] =
                         IF refresh_token_replace_checked(replaced)
                         THEN [Goto(@, "done")
                                 EXCEPT !.ok = TRUE,
                                        !.flag = replaced,
                                        !.access_token =
                                            {generate_jwt(The(c.user).email,
                                                          The(c.user).is_admin)},
                                        !.refresh_token = new_token,
                                        !.refresh_expires_at =
                                            refresh_token_response_expires_at(The(c.rt))]
                         ELSE [Err(@, "store") EXCEPT !.flag = replaced]]
    /\ UNCHANGED <<users, invitations, password_resets, now, license_status, security_setting, enterprise_license, seats>>
    /\ Track(p)

\* replace_refresh_token, then generate_jwt returns Err: Err("Unknown error").
refresh_token_generate_jwt_fails(p) ==
    /\ At(p, "refresh_token", "replace_refresh_token")
    /\ replace_refresh_token_ok(calls[p].token)
    /\ LET c == calls[p]
           new_token == generate_refresh_token
       IN /\ refresh_tokens' = refresh_token_rotate(c.token, new_token)
          /\ next_id' = [next_id EXCEPT !.token = @ + 1]
          /\ history' = [history EXCEPT !.rotated = @ \cup {c.token}]
          /\ calls' = [calls EXCEPT ![p] = [Err(@, "Unknown error") EXCEPT !.flag = TRUE]]
    /\ UNCHANGED <<users, invitations, password_resets, now, license_status,
                   security_setting, enterprise_license, seats>>
    /\ Track(p)

(***************************************************************************)
(* request_password_reset_email, password_reset                            *)
(***************************************************************************)
ResetCode(n) == <<"reset", n>>

\* The reset codes a client can present: the empty one, or one that was
\* mailed (codes are random: none is known beforehand).
ResetCodes == {NoCode} \cup {ResetCode(n) : n \in 1..(next_id.reset - 1)}

get_password_reset_by_user_id(user_id) ==
    Option({r \in password_resets : r.user_id = user_id})

get_password_reset_by_code(code) ==
    Option({r \in password_resets : r.code = code})

\* ghost: the store as request_password_reset_email finds it when it is
\* called.
RequestPasswordResetPre(email) ==
    [active |-> \E user \in get_user_by_email(email) : user.active,
     created_at |-> {r.created_at : r \in {r \in password_resets :
                                             r.user_id \in get_user_id_by_email(email)}},
     codes |-> {r.code : r \in password_resets}]

request_password_reset_email_call(p, email) ==
    /\ Free(p)
    /\ next_id.reset <= MaxResets
    /\ calls' = [calls EXCEPT ![p] =
                   [Begin("request_password_reset_email", "get_user_by_email")
                      EXCEPT !.email = email, !.pre = RequestPasswordResetPre(email)]]
    /\ UNCHANGED <<users, invitations, refresh_tokens, password_resets, next_id,
                   now, license_status, security_setting, enterprise_license, seats, history>>
    /\ Track(p)

\* let Some(user @ User { active: true, .. }) = user else { return Ok(None) }
request_password_reset_email_get_user_by_email(p) ==
    /\ At(p, "request_password_reset_email", "get_user_by_email")
    /\ LET c == calls[p]
           user == get_user_by_email(c.email)
       IN calls' = [calls EXCEPT ![p] =
                      IF user = {} \/ \E u \in user : ~u.active
                      THEN [Goto(@, "done") EXCEPT !.ok = TRUE]
                      ELSE [Goto(@, "get_password_reset_by_user_id")
                              EXCEPT !.user = user,
                                     !.user_id = The(get_user_id_by_email(c.email))]]
    /\ UNCHANGED <<users, invitations, refresh_tokens, password_resets, next_id,
                   now, license_status, security_setting, enterprise_license, seats, history>>
    /\ Track(p)

\* A faulty variant: a request at the end of the cooldown is rejected as well.
request_password_reset_email_recent_or_at(created_at) ==
    now - created_at <= ResetCooldown

\* Utc::now().signed_duration_since(*existing.created_at) < Duration::minutes(5)
request_password_reset_email_recent(created_at) == now - created_at < ResetCooldown

request_password_reset_email_get_password_reset(p) ==
    /\ At(p, "request_password_reset_email", "get_password_reset_by_user_id")
    /\ LET existing == get_password_reset_by_user_id(calls[p].user_id)
       IN calls' = [calls EXCEPT ![p] =
                      IF \E r \in existing : request_password_reset_email_recent(r.created_at)
                      THEN [Err(@, "A password reset has been requested recently, please try again later")
                              EXCEPT !.utc_now = now]
                      ELSE [Goto(@, "create_password_reset") EXCEPT !.utc_now = now]]
    /\ UNCHANGED <<users, invitations, refresh_tokens, password_resets, next_id,
                   now, license_status, security_setting, enterprise_license, seats, history>>
    /\ Track(p)

\* db.create_password_reset(user_id): an account has one request, which a new
\* one replaces.
create_password_reset(user_id) ==
    {r \in password_resets : r.user_id # user_id}
      \cup {[code |-> ResetCode(next_id.reset), user_id |-> user_id, created_at |-> now]}

\* db.create_password_reset, then send_password_reset_email, Ok(Some(handle)).
request_password_reset_email_create(p) ==
    /\ At(p, "request_password_reset_email", "create_password_reset")
    /\ password_resets' = create_password_reset(calls[p].user_id)
    /\ next_id' = [next_id EXCEPT !.reset = @ + 1]
    /\ calls' = [calls EXCEPT ![p] =
                   [Goto(@, "done") EXCEPT !.ok = TRUE, !.flag = TRUE,
                                            !.code = ResetCode(next_id.reset)]]
    /\ UNCHANGED <<users, invitations, refresh_tokens, now, license_status, security_setting, enterprise_license, seats, history>>
    /\ Track(p)

\* ghost: the store as password_reset finds it when it is called.
PasswordResetPre(code) ==
    [known |-> get_password_reset_by_code(code) # {},
     created_at |-> {r.created_at : r \in get_password_reset_by_code(code)},
     inactive |-> \E r \in get_password_reset_by_code(code) :
                    \E user \in get_user(r.user_id) : ~user.active,
     user_id |-> {r.user_id : r \in get_password_reset_by_code(code)},
     used |-> code \in history.used]

password_reset_call(p, code, password) ==
    /\ Free(p)
    /\ \E salt \in Salts :
         calls' = [calls EXCEPT ![p] =
                     [Begin("password_reset", "verify_password_reset")
                        EXCEPT !.code = code, !.password = password,
                               !.password_encrypted = password_hash(password, salt),
                               !.pre = PasswordResetPre(code)]]
    /\ UNCHANGED <<users, invitations, refresh_tokens, password_resets, next_id,
                   now, license_status, security_setting, enterprise_license, seats, history>>
    /\ Track(p)

\* db.verify_password_reset(code): the account of a request that is known and
\* not past its lifetime, when the account is active.
verify_password_reset(code) ==
    {r.user_id : r \in {r \in get_password_reset_by_code(code) :
                          /\ \E user \in get_user(r.user_id) : user.active
                          /\ now - r.created_at <= PasswordResetLifetime}}

password_reset_verify_password_reset(p) ==
    /\ At(p, "password_reset", "verify_password_reset")
    /\ LET user_id == verify_password_reset(calls[p].code)
       IN calls' = [calls EXCEPT ![p] =
                      IF user_id = {}
                      THEN [Err(@, "Invalid code") EXCEPT !.utc_now = now]
                      ELSE [Goto(@, "delete_password_reset_by_user_id")
                              EXCEPT !.user_id = The(user_id), !.utc_now = now]]
    /\ UNCHANGED <<users, invitations, refresh_tokens, password_resets, next_id,
                   now, license_status, security_setting, enterprise_license, seats, history>>
    /\ Track(p)

\* db.delete_password_reset_by_user_id(user_id)
delete_password_reset_by_user_id(user_id) ==
    {r \in password_resets : r.user_id # user_id}

\* A faulty variant: the request is left in the store.
password_reset_keeps_request(user_id) == password_resets

\* self.db.delete_password_reset_by_user_id(user_id).await?
password_reset_deletes_request(user_id) == delete_password_reset_by_user_id(user_id)

password_reset_delete_password_reset(p) ==
    /\ At(p, "password_reset", "delete_password_reset_by_user_id")
    /\ password_resets' = password_reset_deletes_request(calls[p].user_id)
    /\ history' = [history EXCEPT !.used = @ \cup {calls[p].code}]
    /\ calls' = [calls EXCEPT ![p] = Goto(@, "update_user_password")]
    /\ UNCHANGED <<users, invitations, refresh_tokens, next_id, now, license_status, security_setting, enterprise_license, seats>>
    /\ Track(p)

\* db.update_user_password(user_id, password_encrypted), Ok(()).
password_reset_update_user_password(p) ==
    /\ At(p, "password_reset", "update_user_password")
    /\ LET c == calls[p]
       IN IF c.user_id \in UserIds
          THEN /\ users' = [users EXCEPT ![c.user_id].password_encrypted =
                                            c.password_encrypted]
               /\ calls' = [calls EXCEPT ![p] = [Goto(@, "done") EXCEPT !.ok = TRUE]]
          ELSE /\ calls' = [calls EXCEPT ![p] = Err(@, "store")]
               /\ UNCHANGED users
    /\ UNCHANGED <<invitations, refresh_tokens, password_resets, next_id, now,
                   license_status, security_setting, enterprise_license, seats, history>>
    /\ Track(p)

(***************************************************************************)
(* The license service (license.rs).  A certificate text is a tuple: a     *)
(* signed token is <<"jwt", payload>>, anything else does not decode.      *)
(***************************************************************************)
\* The seconds NaiveDateTime::from_timestamp_opt can represent, scaled.
MinTimestamp == 0 - 1
MaxTimestamp == 5

BadToken == <<"bad_token">>

\* A certificate the vendor signed.
Certificate(iat, exp, num) ==
    <<"jwt", [iss |-> "tabbyml.com", iat |-> iat, exp |-> exp, num |-> num]>>

\* A signed certificate that lacks the number of seats.
IncompleteToken == <<"jwt", [iss |-> "tabbyml.com", iat |-> 0, exp |-> MaxTimestamp]>>

\* jwt::decode with the issuer and the required claims validated, exp not:
\* Ok(claims) or Err.
validate_license(token) ==
    IF /\ Len(token) = 2
       /\ token[1] = "jwt"
       /\ DOMAIN token[2] = {"iss", "iat", "exp", "num"}
       /\ token[2].iss = "tabbyml.com"
    THEN {token[2]}
    ELSE {}

\* Ok(DateTime) or Err("Timestamp is corrupt")
jwt_timestamp_to_utc(secs) ==
    IF secs >= MinTimestamp /\ secs <= MaxTimestamp THEN {secs} ELSE {}

\* A faulty variant: a license with every seat taken is exceeded.
license_info_from_raw_seats_full(raw, seats_used) ==
    LET issued_at == jwt_timestamp_to_utc(raw.iat)
        expires_at == jwt_timestamp_to_utc(raw.exp)
    IN IF issued_at = {} \/ expires_at = {}
       THEN {}
       ELSE {[status |-> IF The(expires_at) < now THEN "Expired"
                         ELSE IF seats_used >= raw.num THEN "SeatsExceeded"
                         ELSE "Ok",
              seats |-> raw.num, seats_used |-> seats_used,
              issued_at |-> The(issued_at), expires_at |-> The(expires_at)]}

\* Ok(LicenseInfo) or Err
license_info_from_raw(raw, seats_used) ==
    LET issued_at == jwt_timestamp_to_utc(raw.iat)
        expires_at == jwt_timestamp_to_utc(raw.exp)
    IN IF issued_at = {} \/ expires_at = {}
       THEN {}
       ELSE {[status |-> IF The(expires_at) < now THEN "Expired"
                         ELSE IF seats_used > raw.num THEN "SeatsExceeded"
                         ELSE "Ok",
              seats |-> raw.num, seats_used |-> seats_used,
              issued_at |-> The(issued_at), expires_at |-> The(expires_at)]}

\* license_info_from_raw called on its own, as the tests do.
license_info_from_raw_call(p) ==
    /\ At(p, "license_info_from_raw", "call")
    /\ LET info == license_info_from_raw(The(calls[p].raw), calls[p].seats_used)
       IN calls' = [calls EXCEPT ![p] =
                      IF info = {}
                      THEN Err(@, "Timestamp is corrupt")
                      ELSE [Goto(@, "done") EXCEPT !.ok = TRUE, !.info = info]]
    /\ UNCHANGED <<users, invitations, refresh_tokens, password_resets, next_id,
                   now, license_status, security_setting, enterprise_license, seats, history>>
    /\ Track(p)

\* db.count_active_users()
count_active_users == Cardinality({id \in UserIds : users[id].active})

\* ghost: the store as update_license or read_license finds it when it is
\* called.
LicensePre == [license |-> enterprise_license, count |-> count_active_users]

\* ghost: what a call of read_used_seats has done: whether it has counted
\* the accounts, and when the count it holds was read from the store.
SeatsPre(recounted, read_at) == [recounted |-> recounted, read_at |-> read_at]

\* read_used_seats(force_refresh) called on its own: let now = Utc::now().
read_used_seats_call(p, force_refresh) ==
    /\ Free(p)
    /\ calls' = [calls EXCEPT ![p] =
                   [Begin("read_used_seats", "read_used_seats")
                      EXCEPT !.force_refresh = force_refresh, !.utc_now = now,
                             !.pre = SeatsPre(FALSE, 0)]]
    /\ UNCHANGED <<users, invitations, refresh_tokens, password_resets, next_id,
                   now, license_status, security_setting, enterprise_license,
                   seats, history>>
    /\ Track(p)

\* Ok(seats): to the caller's next step, or to the client.
read_used_seats_return(c, recounted, read_at) ==
    IF c.op = "read_used_seats"
    THEN [Goto(c, "done") EXCEPT !.ok = TRUE, !.pre = SeatsPre(recounted, read_at)]
    ELSE Goto(c, "license_info_from_raw")

\* A faulty variant: the cached count is recounted from the age of 15
\* seconds on.
read_used_seats_stale_at(force_refresh, age) == force_refresh \/ age >= SeatsCacheAge

\* A faulty variant: a count is only taken again when it is forced.
read_used_seats_stale_forced(force_refresh, age) == force_refresh

\* force_refresh || now - refreshed > Duration::seconds(15)
read_used_seats_stale(force_refresh, age) == force_refresh \/ age > SeatsCacheAge

\* The cached pair is copied under the read lock, which no call gets while
\* another holds the write lock.
read_used_seats_read(p) ==
    /\ calls[p].pc = "read_used_seats"
    /\ seats.writer = 0
    /\ LET c == [calls[p] EXCEPT !.refreshed = seats.refreshed,
                                !.seats_used = seats.count]
       IN calls' = [calls EXCEPT ![p] =
                      IF read_used_seats_stale(c.force_refresh,
                                               c.utc_now - seats.refreshed)
                      THEN Goto(c, "seats_write")
                      ELSE read_used_seats_return(c, FALSE, seats.read_at)]
    /\ UNCHANGED <<users, invitations, refresh_tokens, password_resets, next_id,
                   now, license_status, security_setting, enterprise_license, seats, history>>
    /\ Track(p)

\* let mut lock = self.seats.write().await
read_used_seats_write(p) ==
    /\ calls[p].pc = "seats_write"
    /\ seats.writer = 0
    /\ seats' = [seats EXCEPT !.writer = p]
    /\ calls' = [calls EXCEPT ![p] = Goto(@, "count_active_users")]
    /\ UNCHANGED <<users, invitations, refresh_tokens, password_resets, next_id,
                   now, license_status, security_setting, enterprise_license, history>>
    /\ Track(p)

\* seats = self.db.count_active_users().await?; *lock = (now, seats); the
\* lock is released.
read_used_seats_count(p) ==
    /\ calls[p].pc = "count_active_users"
    /\ seats' = [refreshed |-> calls[p].utc_now, count |-> count_active_users,
                 writer |-> 0, read_at |-> now]
    /\ calls' = [calls EXCEPT ![p] =
                   read_used_seats_return(
                     [@ EXCEPT !.seats_used = count_active_users], TRUE, now)]
    /\ UNCHANGED <<users, invitations, refresh_tokens, password_resets, next_id,
                   now, license_status, security_setting, enterprise_license, history>>
    /\ Track(p)

\* update_license(license): validate_license, then read_used_seats(true).
update_license_call(p, license) ==
    /\ Free(p)
    /\ LET raw == validate_license(license)
           c == [Begin("update_license", "read_used_seats")
                   EXCEPT !.license = license, !.raw = raw, !.force_refresh = TRUE,
                          !.utc_now = now, !.pre = LicensePre]
       IN calls' = [calls EXCEPT ![p] =
                      IF raw = {} THEN Err(c, "License is not valid") ELSE c]
    /\ UNCHANGED <<users, invitations, refresh_tokens, password_resets, next_id,
                   now, license_status, security_setting, enterprise_license, seats, history>>
    /\ Track(p)

\* A faulty variant: a license short of seats is accepted as well.
update_license_accepts_exceeded(status) == status \in {"Ok", "SeatsExceeded"}

\* LicenseStatus::Ok => self.db.update_enterprise_license(Some(license))
update_license_accepts(status) == status = "Ok"

\* match license_info_from_raw(raw, seats)?.status
update_license_license_info(p) ==
    /\ At(p, "update_license", "license_info_from_raw")
    /\ LET c == calls[p]
           info == license_info_from_raw(The(c.raw), c.seats_used)
       IN calls' = [calls EXCEPT ![p] =
                      IF info = {}
                      THEN Err(@, "Timestamp is corrupt")
                      ELSE IF update_license_accepts(The(info).status)
                      THEN [Goto(@, "update_enterprise_license") EXCEPT !.info = info]
                      ELSE IF The(info).status = "Expired"
                      THEN [Err(@, "License is expired") EXCEPT !.info = info]
                      ELSE [Err(@, "License doesn't contain sufficient number of seats")
                              EXCEPT !.info = info]]
    /\ UNCHANGED <<users, invitations, refresh_tokens, password_resets, next_id,
                   now, license_status, security_setting, enterprise_license, seats, history>>
    /\ Track(p)

\* self.db.update_enterprise_license(Some(license)).await?
update_license_update(p) ==
    /\ At(p, "update_license", "update_enterprise_license")
    /\ enterprise_license' = {calls[p].license}
    /\ calls' = [calls EXCEPT ![p] = [Goto(@, "done") EXCEPT !.ok = TRUE]]
    /\ UNCHANGED <<users, invitations, refresh_tokens, password_resets, next_id,
                   now, license_status, security_setting, seats, history>>
    /\ Track(p)

read_license_call(p) ==
    /\ Free(p)
    /\ calls' = [calls EXCEPT ![p] =
                   [Begin("read_license", "read_enterprise_license")
                      EXCEPT !.pre = LicensePre]]
    /\ UNCHANGED <<users, invitations, refresh_tokens, password_resets, next_id,
                   now, license_status, security_setting, enterprise_license, seats, history>>
    /\ Track(p)

\* db.read_enterprise_license(), validate_license, then read_used_seats(false).
read_license_read(p) ==
    /\ At(p, "read_license", "read_enterprise_license")
    /\ calls' = [calls EXCEPT ![p] =
                   IF enterprise_license = {}
                   THEN [Goto(@, "done") EXCEPT !.ok = TRUE]
                   ELSE LET raw == validate_license(The(enterprise_license))
                        IN IF raw = {}
                           THEN Err(@, "License is corrupt")
                           ELSE [Goto(@, "read_used_seats")
                                   EXCEPT !.license = The(enterprise_license),
                                          !.raw = raw, !.utc_now = now]]
    /\ UNCHANGED <<users, invitations, refresh_tokens, password_resets, next_id,
                   now, license_status, security_setting, enterprise_license, seats, history>>
    /\ Track(p)

\* license_info_from_raw(license, seats)?, Ok(Some(license)).
read_license_license_info(p) ==
    /\ At(p, "read_license", "license_info_from_raw")
    /\ LET c == calls[p]
           info == license_info_from_raw(The(c.raw), c.seats_used)
       IN calls' = [calls EXCEPT ![p] =
                      IF info = {}
                      THEN Err(@, "Timestamp is corrupt")
                      ELSE [Goto(@, "done") EXCEPT !.ok = TRUE, !.info = info]]
    /\ UNCHANGED <<users, invitations, refresh_tokens, password_resets, next_id,
                   now, license_status, security_setting, enterprise_license, seats, history>>
    /\ Track(p)

(***************************************************************************)
(* Registration and invitations, one call at a time.                       *)
(***************************************************************************)
NextRegister ==
    \/ \E email \in Emails, password \in {"pw1"}, code \in Codes :
         register_call(1, email, password, code)
    \/ register_is_admin_initialized(1)
    \/ register_check_invitation(1)
    \/ register_get_user_by_email(1)
    \/ register_create_user(1)
    \/ register_get_user(1)
    \/ register_create_refresh_token(1)
    \/ \E email \in Emails : create_invitation_call(1, email)
    \/ create_invitation_read_license(1)
    \/ create_invitation_create(1)
    \/ \E id \in 1..MaxInvitations : delete_invitation(1, id)

SpecRegister == Init /\ [][NextRegister]_vars

(***************************************************************************)
(* Registration and invitations, one call at a time, under each of the     *)
(* answers read_license can give.                                          *)
(***************************************************************************)
\* The status of the license read, "None" when no license is installed.
LicenseReads == {"Ok", "Expired", "SeatsExceeded", "None"}

InitInvitations ==
    /\ users = <<>>
    /\ invitations = {}
    /\ refresh_tokens = {}
    /\ password_resets = {}
    /\ next_id = [invitation |-> 1, token |-> 1, reset |-> 1]
    /\ now = 0
    /\ license_status \in LicenseReads
    /\ security_setting = [allowed_register_domain_list |-> {}]
    /\ enterprise_license = {}
    /\ seats = [refreshed |-> 0, count |-> 0, writer |-> 0, read_at |-> 0]
    /\ calls = [p \in Procs |-> Idle]
    /\ wrote = [p \in Procs |-> {}]
    /\ history = [consumed |-> {}, twice |-> {}, issued |-> {}, rotated |-> {},
                  used |-> {}, mailed |-> {}]

SpecInvitations == InitInvitations /\ [][NextRegister]_vars

(***************************************************************************)
(* Invitations by request, one call at a time, under each of the answers   *)
(* read_license can give: an admin sets the signup policy and deletes      *)
(* invitations, clients request invitations.                               *)
(***************************************************************************)
NextRequestInvitation ==
    \/ \E domains \in SUBSET Domains : update_security_setting(domains)
    \/ \E email \in Emails : request_invitation_email_call(1, email)
    \/ request_invitation_email_read_security_setting(1)
    \/ request_invitation_email_read_license(1)
    \/ request_invitation_email_create(1)
    \/ \E id \in 1..MaxInvitations : delete_invitation(1, id)

SpecRequestInvitation == InitInvitations /\ [][NextRequestInvitation]_vars

(***************************************************************************)
(* Registration and invitations, two clients at once: both register, the    *)
(* first also invites, the second also deletes invitations.                *)
(***************************************************************************)
NextRegisterConcurrent ==
    \/ \E p \in Procs :
         \/ \E email \in Emails, password \in {"pw1"}, code \in Codes :
              register_call(p, email, password, code)
         \/ register_is_admin_initialized(p)
         \/ register_check_invitation(p)
         \/ register_get_user_by_email(p)
         \/ register_create_user(p)
         \/ register_get_user(p)
         \/ register_create_refresh_token(p)
    \/ \E email \in Emails : create_invitation_call(1, email)
    \/ create_invitation_read_license(1)
    \/ create_invitation_create(1)
    \/ \E id \in 1..MaxInvitations : delete_invitation(2, id)

SpecRegisterConcurrent == Init /\ [][NextRegisterConcurrent]_vars

(***************************************************************************)
(* The token lifecycle, one call at a time: clients register (the second   *)
(* by invitation), log in and refresh; an admin disables and enables       *)
(* accounts; time passes.                                                  *)
(***************************************************************************)
NextToken ==
    \/ \E email \in Emails, code \in Codes : register_call(1, email, "pw1", code)
    \/ register_is_admin_initialized(1)
    \/ register_check_invitation(1)
    \/ register_get_user_by_email(1)
    \/ register_create_user(1)
    \/ register_get_user(1)
    \/ register_create_refresh_token(1)
    \/ \E email \in Emails : create_invitation_call(1, email)
    \/ create_invitation_read_license(1)
    \/ create_invitation_create(1)
    \/ \E email \in Emails, password \in Passwords : token_auth_call(1, email, password)
    \/ token_auth_get_user_by_email(1)
    \/ token_auth_create_refresh_token(1)
    \/ \E token \in Tokens : refresh_token_call(1, token)
    \/ refresh_token_get_refresh_token(1)
    \/ refresh_token_get_user(1)
    \/ refresh_token_replace_refresh_token(1)
    \/ \E id \in 1..Cardinality(Emails), active \in BOOLEAN :
         update_user_active_call(1, id, active)
    \/ update_user_active_get_user(1)
    \/ update_user_active_update(1)
    \/ Tick(MaxTime)

SpecToken == Init /\ [][NextToken]_vars

(***************************************************************************)
(* Logins, two clients at once: accounts are created in the store with the *)
(* hash of a password and disabled and enabled, clients log in.            *)
(***************************************************************************)
NextLogin ==
    \/ \E email \in Emails, salt \in Salts :
         create_user(email, password_hash("pw1", salt), ~is_admin_initialized)
    \/ \E id \in 1..Cardinality(Emails), active \in BOOLEAN :
         db_update_user_active(id, active)
    \/ \E p \in Procs :
         \/ \E email \in Emails, password \in Passwords :
              token_auth_call(p, email, password)
         \/ token_auth_get_user_by_email(p)
         \/ token_auth_create_refresh_token(p)

SpecLogin == Init /\ [][NextLogin]_vars

(***************************************************************************)
(* Rotation, two clients at once: the first registers, both refresh, time  *)
(* passes.                                                                 *)
(***************************************************************************)
NextRefreshConcurrent ==
    \/ register_call(1, "a@x.com", "pw1", NoCode)
    \/ register_is_admin_initialized(1)
    \/ register_check_invitation(1)
    \/ register_get_user_by_email(1)
    \/ register_create_user(1)
    \/ register_get_user(1)
    \/ register_create_refresh_token(1)
    \/ \E p \in Procs :
         \/ \E token \in Tokens : refresh_token_call(p, token)
         \/ refresh_token_get_refresh_token(p)
         \/ refresh_token_get_user(p)
         \/ refresh_token_replace_refresh_token(p)
    \/ Tick(MaxTime)

SpecRefreshConcurrent == Init /\ [][NextRefreshConcurrent]_vars

(***************************************************************************)
(* Password resets, one call at a time: accounts are created in the store, *)
(* clients request reset codes and use them, an admin disables and enables *)
(* accounts, minutes pass and requests expire.                             *)
(***************************************************************************)
NextReset ==
    \/ \E email \in Emails : create_user(email, InvalidHash, ~is_admin_initialized)
    \/ \E id \in 1..Cardinality(Emails), active \in BOOLEAN :
         db_update_user_active(id, active)
    \/ \E email \in Emails : request_password_reset_email_call(1, email)
    \/ request_password_reset_email_get_user_by_email(1)
    \/ request_password_reset_email_get_password_reset(1)
    \/ request_password_reset_email_create(1)
    \/ \E code \in ResetCodes : password_reset_call(1, code, "pw2")
    \/ password_reset_verify_password_reset(1)
    \/ password_reset_delete_password_reset(1)
    \/ password_reset_update_user_password(1)
    \/ Tick(MaxResetTime)

SpecReset == Init /\ [][NextReset]_vars

(***************************************************************************)
(* license_info_from_raw, applied once to a payload, a number of used      *)
(* seats and a time of the clock.                                          *)
(***************************************************************************)
InitLicenseInfo ==
    /\ users = <<>>
    /\ invitations = {}
    /\ refresh_tokens = {}
    /\ password_resets = {}
    /\ next_id = [invitation |-> 1, token |-> 1, reset |-> 1]
    /\ now \in 0..MaxTime
    /\ license_status \in {"Ok", "Expired"}
    /\ security_setting = [allowed_register_domain_list |-> {}]
    /\ enterprise_license = {}
    /\ seats = [refreshed |-> 0, count |-> 0, writer |-> 0, read_at |-> 0]
    /\ \E iat \in {MinTimestamp - 1, 0},
          exp \in (MinTimestamp - 1)..(MaxTimestamp + 1),
          num \in 0..MaxSeats,
          seats_used \in 0..(MaxSeats + 1) :
         calls = [p \in Procs |->
                    IF p = 1
                    THEN [Begin("license_info_from_raw", "call")
                            EXCEPT !.raw = validate_license(Certificate(iat, exp, num)),
                                   !.seats_used = seats_used]
                    ELSE Idle]
    /\ wrote = [p \in Procs |-> {}]
    /\ history = [consumed |-> {}, twice |-> {}, issued |-> {}, rotated |-> {},
                  used |-> {}, mailed |-> {}]

NextLicenseInfo == license_info_from_raw_call(1)

SpecLicenseInfo == InitLicenseInfo /\ [][NextLicenseInfo]_vars

(***************************************************************************)
(* The license service, one call at a time: accounts are created in the    *)
(* store and disabled, certificates are installed and read, time passes.   *)
(***************************************************************************)
\* The certificate texts an admin can submit.
Certificates ==
    {BadToken, IncompleteToken}
      \cup {Certificate(0, exp, num) : exp \in {1, MaxTimestamp, MaxTimestamp + 1},
                                       num \in 1..MaxSeats}

NextLicense ==
    \/ \E email \in Emails : create_user(email, InvalidHash, ~is_admin_initialized)
    \/ \E id \in 1..Cardinality(Emails), active \in BOOLEAN :
         db_update_user_active(id, active)
    \/ \E license \in Certificates : update_license_call(1, license)
    \/ read_used_seats_read(1)
    \/ read_used_seats_write(1)
    \/ read_used_seats_count(1)
    \/ update_license_license_info(1)
    \/ update_license_update(1)
    \/ read_license_call(1)
    \/ read_license_read(1)
    \/ read_license_license_info(1)
    \/ Tick(MaxTime)

SpecLicense == Init /\ [][NextLicense]_vars

(***************************************************************************)
(* The seat cache, two clients at once: accounts are created in the store, *)
(* clients read the used seats, forcing a recount or not, time passes.     *)
(***************************************************************************)
NextSeats ==
    \/ \E email \in Emails : create_user(email, InvalidHash, ~is_admin_initialized)
    \/ \E p \in Procs :
         \/ \E force_refresh \in BOOLEAN : read_used_seats_call(p, force_refresh)
         \/ read_used_seats_read(p)
         \/ read_used_seats_write(p)
         \/ read_used_seats_count(p)
    \/ Tick(MaxSeatsTime)

\* new_license_service has counted the accounts of an empty store and then
\* stamped the count with Utc::now(): the stamp is the time of the count or
\* a later one.  The license plays no part in the seat cache.
InitSeats ==
    /\ users = <<>>
    /\ invitations = {}
    /\ refresh_tokens = {}
    /\ password_resets = {}
    /\ next_id = [invitation |-> 1, token |-> 1, reset |-> 1]
    /\ now \in {0, 1}
    /\ license_status = "Ok"
    /\ security_setting = [allowed_register_domain_list |-> {}]
    /\ enterprise_license = {}
    /\ seats = [refreshed |-> now, count |-> 0, writer |-> 0, read_at |-> 0]
    /\ calls = [p \in Procs |-> Idle]
    /\ wrote = [p \in Procs |-> {}]
    /\ history = [consumed |-> {}, twice |-> {}, issued |-> {}, rotated |-> {},
                  used |-> {}, mailed |-> {}]

SpecSeats == InitSeats /\ [][NextSeats]_vars

(***************************************************************************)
(* The credential hasher: password_hash and password_verify applied to     *)
(* passwords, to the hashes of passwords and to strings that are no hash.  *)
(***************************************************************************)
RawPasswords == {"", "pw1", "pw2"}
\* SaltString::generate(&mut OsRng)
HasherSalts == 1..MaxSalt
\* The empty string, a string with no $, a PHC prefix with nothing after it.
MalformedHashes == {EmptyHash, InvalidHash, <<"$argon2id">>}
HashesOf(raw) == {password_hash(raw, salt) : salt \in HasherSalts}
HashStrings == MalformedHashes \cup UNION {HashesOf(raw) : raw \in RawPasswords}

password_hash_call(p, raw) ==
    /\ \E salt \in HasherSalts :
         calls' = [calls EXCEPT ![p] =
                     [Begin("password_hash", "done")
                        EXCEPT !.password = raw,
                               !.password_encrypted = password_hash(raw, salt),
                               !.ok = TRUE]]
    /\ UNCHANGED <<users, invitations, refresh_tokens, password_resets, next_id,
                   now, license_status, security_setting, enterprise_license,
                   seats, history>>
    /\ Track(p)

password_verify_call(p, raw, hash) ==
    /\ calls' = [calls EXCEPT ![p] =
                   [Begin("password_verify", "done")
                      EXCEPT !.password = raw, !.password_encrypted = hash,
                             !.flag = password_verify(raw, hash), !.ok = TRUE]]
    /\ UNCHANGED <<users, invitations, refresh_tokens, password_resets, next_id,
                   now, license_status, security_setting, enterprise_license,
                   seats, history>>
    /\ Track(p)

NextHasher ==
    \E p \in Procs :
      \/ \E raw \in RawPasswords : password_hash_call(p, raw)
      \/ \E raw \in RawPasswords, hash \in HashStrings : password_verify_call(p, raw, hash)

SpecHasher == Init /\ [][NextHasher]_vars

(***************************************************************************)
(* Accounts, one call at a time: clients register and sign in through a    *)
(* provider, admins invite, set the signup policy and change roles and     *)
(* active flags, clients log in, refresh and reset passwords.              *)
(***************************************************************************)
\* The calls that draw a fresh token, code or id are made while fewer than
\* MaxIssued have been drawn.  A client may send the empty password.
LoginPasswords == {"", "pw1"}

CanIssue ==
    (next_id.token - 1) + (next_id.reset - 1) + (next_id.invitation - 1)
      < MaxIssued

NextAccounts ==
    \/ CanIssue /\ \E email \in Emails, code \in Codes : register_call(1, email, "pw1", code)
    \/ register_is_admin_initialized(1)
    \/ register_check_invitation(1)
    \/ register_get_user_by_email(1)
    \/ register_create_user(1)
    \/ register_get_user(1)
    \/ register_create_refresh_token(1)
    \/ CanIssue /\ \E email \in Emails : create_invitation_call(1, email)
    \/ create_invitation_read_license(1)
    \/ create_invitation_create(1)
    \/ \E domains \in {{}, Domains} : update_security_setting(domains)
    \/ CanIssue /\ \E email \in Emails : oauth_call(1, email)
    \/ oauth_get_user_by_email(1)
    \/ oauth_read_security_setting(1)
    \/ oauth_create_user(1)
    \/ oauth_get_invitation_by_email(1)
    \/ oauth_create_user_with_invitation(1)
    \/ oauth_get_user(1)
    \/ oauth_create_refresh_token(1)
    \/ \E id \in 1..Cardinality(Emails), is_admin \in BOOLEAN :
         update_user_role_call(1, id, is_admin)
    \/ update_user_role_get_user(1)
    \/ update_user_role_update(1)
    \/ \E id \in 1..Cardinality(Emails), active \in BOOLEAN :
         update_user_active_call(1, id, active)
    \/ update_user_active_get_user(1)
    \/ update_user_active_update(1)
    \/ CanIssue /\ \E email \in Emails, password \in LoginPasswords :
                      token_auth_call(1, email, password)
    \/ token_auth_get_user_by_email(1)
    \/ token_auth_create_refresh_token(1)
    \/ CanIssue /\ \E token \in Tokens : refresh_token_call(1, token)
    \/ refresh_token_get_refresh_token(1)
    \/ refresh_token_get_user(1)
    \/ refresh_token_replace_refresh_token(1)
    \/ CanIssue /\ \E email \in Emails : request_password_reset_email_call(1, email)
    \/ request_password_reset_email_get_user_by_email(1)
    \/ request_password_reset_email_get_password_reset(1)
    \/ request_password_reset_email_create(1)
    \/ \E code \in ResetCodes : password_reset_call(1, code, "pw1")
    \/ password_reset_verify_password_reset(1)
    \/ password_reset_delete_password_reset(1)
    \/ password_reset_update_user_password(1)

SpecAccounts == Init /\ [][NextAccounts]_vars

(***************************************************************************)
(* The calls that issue tokens, where the signing of the access token or   *)
(* the store may fail after the call has written to the store.             *)
(***************************************************************************)
NextFailures ==
    \/ CanIssue /\ \E email \in Emails, code \in Codes : register_call(1, email, "pw1", code)
    \/ register_is_admin_initialized(1)
    \/ register_check_invitation(1)
    \/ register_get_user_by_email(1)
    \/ register_create_user(1)
    \/ register_get_user(1)
    \/ register_create_refresh_token(1)
    \/ register_create_refresh_token_fails(1)
    \/ register_generate_jwt_fails(1)
    \/ CanIssue /\ \E email \in Emails : create_invitation_call(1, email)
    \/ create_invitation_read_license(1)
    \/ create_invitation_create(1)
    \/ \E domains \in {{}, Domains} : update_security_setting(domains)
    \/ CanIssue /\ \E email \in Emails : oauth_call(1, email)
    \/ oauth_get_user_by_email(1)
    \/ oauth_read_security_setting(1)
    \/ oauth_create_user(1)
    \/ oauth_get_invitation_by_email(1)
    \/ oauth_create_user_with_invitation(1)
    \/ oauth_get_user(1)
    \/ oauth_create_refresh_token(1)
    \/ oauth_generate_jwt_fails(1)
    \/ CanIssue /\ \E email \in Emails : token_auth_call(1, email, "pw1")
    \/ token_auth_get_user_by_email(1)
    \/ token_auth_create_refresh_token(1)
    \/ token_auth_generate_jwt_fails(1)
    \/ CanIssue /\ \E token \in Tokens : refresh_token_call(1, token)
    \/ refresh_token_get_refresh_token(1)
    \/ refresh_token_get_user(1)
    \/ refresh_token_replace_refresh_token(1)
    \/ refresh_token_generate_jwt_fails(1)

SpecFailures == Init /\ [][NextFailures]_vars

(***************************************************************************)
(* Accounts made by two clients at once: each registers or comes back from *)
(* an OAuth provider, for any email, with no invitation code or with one   *)
(* the store has given out, while invitations are created and the          *)
(* self-signup policy changes.                                             *)
(***************************************************************************)
NextEmails ==
    \/ \E p \in Procs :
         \/ CanIssue /\ \E email \in Emails, code \in Codes \ {<<"abc">>} :
                          register_call(p, email, "pw1", code)
         \/ register_is_admin_initialized(p)
         \/ register_check_invitation(p)
         \/ register_get_user_by_email(p)
         \/ register_create_user(p)
         \/ register_get_user(p)
         \/ register_create_refresh_token(p)
         \/ CanIssue /\ \E email \in Emails : oauth_call(p, email)
         \/ oauth_get_user_by_email(p)
         \/ oauth_read_security_setting(p)
         \/ oauth_create_user(p)
         \/ oauth_get_invitation_by_email(p)
         \/ oauth_create_user_with_invitation(p)
         \/ oauth_get_user(p)
         \/ oauth_create_refresh_token(p)
    \/ CanIssue /\ \E email \in Emails : create_invitation_call(1, email)
    \/ create_invitation_read_license(1)
    \/ create_invitation_create(1)
    \/ \E domains \in {{}, Domains} : update_security_setting(domains)

\* An empty store under a valid license: invitations can be created.
InitEmails == Init /\ license_status = "Ok"

SpecEmails == InitEmails /\ [][NextEmails]_vars

(***************************************************************************)
(* Properties.                                                             *)
(***************************************************************************)

\* C1: a register that is called while no admin exists and succeeds has
\* created an admin (owner) account, whatever invitation code it was given:
\* absent, unknown, or the code of an existing invitation.  It asked the store
\* for no invitation and consumed none.
C1_FirstRegisterCreatesOwner ==
    \A p \in Procs :
      (Done(p, "register") /\ calls[p].ok /\ ~calls[p].pre.admin)
      => /\ calls[p].user_id \in UserIds
         /\ users[calls[p].user_id].email = calls[p].email
         /\ users[calls[p].user_id].is_admin
         /\ users[calls[p].user_id].is_owner
         /\ The(calls[p].access_token).is_admin
         /\ ~calls[p].looked_up
         /\ wrote[p] = {"users", "refresh_tokens"}
         /\ calls[p].pre.invitation \subseteq invitations

\* C1's case: no admin existed, the code given was that of an invitation for
\* the email, and register succeeded.
C1_Witness ==
    \E p \in Procs :
      /\ Done(p, "register") /\ calls[p].ok
      /\ ~calls[p].pre.admin
      /\ \E i \in calls[p].pre.invitation : i.email = calls[p].email

\* The invitation code of the call named no invitation made out to its email.
NoValidInvitation(c) ==
    \/ c.code = NoCode
    \/ c.pre.invitation = {}
    \/ \E i \in c.pre.invitation : i.email # c.email

\* C2: a register that is called while an admin exists, with no invitation
\* code, a code of no invitation or the code of an invitation for another
\* email, fails and leaves every table as it was.
C2_RegisterNeedsMatchingInvitation ==
    \A p \in Procs :
      (Done(p, "register") /\ calls[p].pre.admin /\ NoValidInvitation(calls[p]))
      => /\ ~calls[p].ok
         /\ calls[p].err = "Invitation code is not valid"
         /\ wrote[p] = {}
         /\ calls[p].refresh_token = NoToken
         /\ calls[p].access_token = {}

\* C2's case: an admin exists and the code is that of an invitation for
\* another email, while the email of the call has no account.
C2_Witness ==
    \E p \in Procs :
      /\ Done(p, "register") /\ ~calls[p].ok
      /\ calls[p].pre.admin
      /\ ~calls[p].pre.registered
      /\ \E i \in calls[p].pre.invitation : i.email # calls[p].email

\* C3: an invitation is consumed at most once.  Once a register has succeeded
\* with an invitation, the invitation is gone from the store for good: every
\* register called afterwards with its code fails, and so does every
\* delete_invitation of its id, in any interleaving of the calls of two
\* clients.
C3_InvitationConsumedOnce ==
    /\ history.twice = {}
    /\ \A i \in history.consumed :
         /\ get_invitation(i.id) = {}
         /\ get_invitation_by_code(i.code) = {}
    /\ \A p \in Procs :
         /\ (Done(p, "register") /\ calls[p].pre.consumed)
            => ~calls[p].ok /\ wrote[p] = {}
         /\ (Done(p, "delete_invitation") /\ calls[p].pre.consumed)
            => ~calls[p].ok /\ wrote[p] = {}

\* C3's case: an invitation was consumed, and a register with its code and a
\* delete_invitation of its id, both called afterwards, have returned.
C3_Witness ==
    \E i \in history.consumed :
      /\ Done(1, "register") /\ calls[1].code = i.code /\ calls[1].pre.consumed
      /\ Done(2, "delete_invitation") /\ calls[2].id = i.id /\ calls[2].pre.consumed

\* Both clients' calls of refresh_token have returned and were given the
\* same token string.
BothRefreshed ==
    /\ Done(1, "refresh_token") /\ Done(2, "refresh_token")
    /\ calls[1].token = calls[2].token

\* The call of p returned an error and no token.
Failed(p) ==
    /\ ~calls[p].ok
    /\ calls[p].refresh_token = NoToken
    /\ calls[p].access_token = {}

\* The two calls ran concurrently: each was called while the token was in
\* the store, so neither was called after the other had replaced it.
Concurrent == \A p \in Procs : calls[p].pre.known

C5_RefreshFailsCleanly ==
    \A p \in Procs :
      (/\ Done(p, "refresh_token")
       /\ \/ ~calls[p].pre.known
          \/ calls[p].pre.expired
          \/ calls[p].pre.inactive)
      => /\ Failed(p)
         /\ wrote[p] = {}
         /\ calls[p].err \in {"Invalid refresh token", "Expired refresh token",
                              "User is disabled"}
         /\ ~calls[p].pre.known => calls[p].err = "Invalid refresh token"
         /\ (calls[p].pre.known /\ calls[p].pre.expired)
            => calls[p].err = "Expired refresh token"

\* C5's case: the token is in the store and unexpired, its account has been
\* disabled, and refresh_token has returned.
C5_Witness ==
    \E p \in Procs :
      /\ Done(p, "refresh_token")
      /\ calls[p].pre.known /\ ~calls[p].pre.expired /\ calls[p].pre.inactive
      /\ calls[p].err = "User is disabled"
      /\ get_refresh_token(calls[p].token) # {}

\* The row first issued (by register or token_auth) in the rotation chain of
\* the row t.
Original(t) == {o \in history.issued : o.chain = t.chain}

\* C6: the expiry of a refresh token is fixed when register or token_auth
\* issues it.  Every row in the store carries the expires_at of the row first
\* issued in its chain, every refresh_token response reports that same
\* expires_at, and the token string a rotation returns differs from the one it
\* replaced.
C6_ExpiryPreservedAcrossRotation ==
    /\ \A t \in refresh_tokens :
         /\ Original(t) # {}
         /\ \A o \in Original(t) : o.expires_at = t.expires_at
    /\ \A p \in Procs :
         (Done(p, "refresh_token") /\ calls[p].ok)
         => /\ calls[p].refresh_token # calls[p].token
            /\ \A o \in Original(The(calls[p].rt)) :
                 calls[p].refresh_expires_at = o.expires_at
            /\ \A t \in get_refresh_token(calls[p].refresh_token) :
                 /\ t.chain = The(calls[p].rt).chain
                 /\ t.expires_at = calls[p].refresh_expires_at

\* C6's case: a token that is itself the product of a rotation has been
\* rotated, later than its chain was issued.
C6_Witness ==
    \E p \in Procs :
      /\ Done(p, "refresh_token") /\ calls[p].ok
      /\ The(calls[p].rt).token # The(calls[p].rt).chain
      /\ calls[p].refresh_expires_at < now + RefreshTokenTTL
      /\ get_refresh_token(calls[p].refresh_token) # {}

\* C7: rotation replaces.  A token string that has been rotated is not in the
\* store again, so a refresh_token called with it afterwards fails as unknown;
\* the token a successful rotation returned is in the store until it is
\* rotated itself; and no two rows of the store belong to one rotation chain.
C7_RotationReplaces ==
    /\ \A token \in history.rotated : get_refresh_token(token) = {}
    /\ \A t1, t2 \in refresh_tokens : t1.chain = t2.chain => t1 = t2
    /\ \A p \in Procs :
         /\ (Done(p, "refresh_token") /\ calls[p].ok)
            => /\ calls[p].token \in history.rotated
               /\ \/ get_refresh_token(calls[p].refresh_token) # {}
                  \/ calls[p].refresh_token \in history.rotated
         /\ (Done(p, "refresh_token") /\ calls[p].pre.rotated)
            => /\ Failed(p)
               /\ calls[p].err = "Invalid refresh token"
               /\ wrote[p] = {}

\* C7's case: one client rotated t into t', and the other, calling afterwards
\* with t, has failed.
C7_Witness ==
    \E p, q \in Procs :
      /\ p # q
      /\ Done(p, "refresh_token") /\ calls[p].ok
      /\ get_refresh_token(calls[p].refresh_token) # {}
      /\ Done(q, "refresh_token") /\ calls[q].pre.rotated
      /\ calls[q].token = calls[p].token

\* C8: a successful token_auth adds one row to refresh_tokens, for the
\* account of the email, with a token string that was never issued before,
\* and leaves every earlier row as it was; a token_auth with an email of no
\* account or with a wrong password fails and leaves the table as it was.
C8_LoginInsertsFreshToken ==
    \A p \in Procs :
      /\ (Done(p, "token_auth") /\ calls[p].ok)
         => /\ calls[p].refresh_token \notin calls[p].pre.issued
            /\ wrote[p] = {"refresh_tokens"}
            /\ \E row \in refresh_tokens :
                 /\ row.token = calls[p].refresh_token
                 /\ row.user_id \in get_user_id_by_email(calls[p].email)
                 /\ row \notin calls[p].pre.rows
                 /\ refresh_tokens = calls[p].pre.rows \cup {row}
      /\ (Done(p, "token_auth") /\ (~calls[p].pre.known \/ calls[p].pre.wrong))
         => /\ Failed(p)
            /\ wrote[p] = {}
            /\ refresh_tokens = calls[p].pre.rows

\* C8's case: an account that holds refresh tokens already has logged in
\* again.
C8_Witness ==
    \E p \in Procs :
      /\ Done(p, "token_auth") /\ calls[p].ok
      /\ \E row \in calls[p].pre.rows :
           row.user_id \in get_user_id_by_email(calls[p].email)

\* C9: a request_password_reset_email for an active account that reads the
\* clock less than 5 minutes after the account's existing request was created
\* is rejected and leaves the request, and every table, as it was; one that
\* reads the clock 5 minutes or more after it (or finds no request) succeeds
\* and has stored a new code for the account.
C9_ResetRequestCooldown ==
    \A p \in Procs :
      (Done(p, "request_password_reset_email") /\ calls[p].pre.active)
      => LET c == calls[p]
         IN /\ (\E t \in c.pre.created_at : c.utc_now - t < 5)
               => /\ ~c.ok
                  /\ c.err = "A password reset has been requested recently, please try again later"
                  /\ c.code = NoCode
                  /\ wrote[p] = {}
            /\ (\A t \in c.pre.created_at : c.utc_now - t >= 5)
               => /\ c.ok
                  /\ c.code \notin c.pre.codes
                  /\ wrote[p] = {"password_resets"}
                  /\ \E r \in password_resets :
                       /\ r.code = c.code
                       /\ r.user_id \in get_user_id_by_email(c.email)
                       /\ r.created_at >= c.utc_now

\* C9's case: a second request, 4 minutes after the first, was rejected, and
\* the first request is in the store.
C9_Witness ==
    \E p \in Procs :
      /\ Done(p, "request_password_reset_email")
      /\ calls[p].pre.active /\ ~calls[p].ok
      /\ \E t \in calls[p].pre.created_at : calls[p].utc_now - t = 4
      /\ \E r \in password_resets :
           /\ r.user_id \in get_user_id_by_email(calls[p].email)
           /\ r.created_at \in calls[p].pre.created_at

\* The code password_reset was called with was that of a request in the
\* store, of an active account, and not past its lifetime when the store
\* verified it.
ValidResetCode(c) ==
    /\ c.pre.known
    /\ ~c.pre.inactive
    /\ \A t \in c.pre.created_at : c.utc_now - t <= PasswordResetLifetime

\* C10: a reset code is used once.  A password_reset with a valid code sets
\* the password hash of the code's account to the hash of the new password and
\* removes the request; the code of a request so used is never in the store
\* again, and a password_reset called with it afterwards fails and changes
\* nothing.  A password_reset with an unknown or expired code, or the code of
\* a disabled account, fails and changes nothing.
C10_ResetCodeSingleUse ==
    /\ \A code \in history.used : get_password_reset_by_code(code) = {}
    /\ \A p \in Procs :
         Done(p, "password_reset")
         => LET c == calls[p]
            IN /\ ValidResetCode(c)
                  => /\ c.ok
                     /\ c.pre.user_id = {c.user_id}
                     /\ users[c.user_id].password_encrypted = c.password_encrypted
                     /\ password_verify(c.password, users[c.user_id].password_encrypted)
                     /\ get_password_reset_by_code(c.code) = {}
                     /\ c.code \in history.used
                     /\ "password_resets" \in wrote[p]
                     /\ wrote[p] \subseteq {"password_resets", "users"}
               /\ ~ValidResetCode(c)
                  => /\ ~c.ok
                     /\ c.err = "Invalid code"
                     /\ wrote[p] = {}
               /\ c.pre.used => ~c.ok /\ wrote[p] = {}

\* C10's case: a code that a password_reset had used was presented again, and
\* the call has failed.
C10_Witness ==
    \E p \in Procs :
      /\ Done(p, "password_reset")
      /\ calls[p].pre.used
      /\ ~calls[p].ok
      /\ \E id \in UserIds : password_verify("pw2", users[id].password_encrypted)

\* The status the specification derives from a certificate, the seats in use
\* and the clock.
ExpectedStatus(raw, seats_used) ==
    IF now > raw.exp THEN "Expired"
    ELSE IF seats_used > raw.num THEN "SeatsExceeded"
    ELSE "Ok"

\* C11, as stated: for every exp, num, seats_used and time, license_info_from_raw
\* returns a license whose status is Expired when now > exp, else SeatsExceeded
\* when seats_used > num, else Ok.
C11_StatusForEveryInput ==
    \A p \in Procs :
      Done(p, "license_info_from_raw")
      => /\ calls[p].ok
         /\ \A info \in calls[p].info :
              info.status = ExpectedStatus(The(calls[p].raw), calls[p].seats_used)

\* C11, amended: when iat or exp is not a timestamp the calendar represents,
\* license_info_from_raw returns an error and no status; for every other
\* input it returns the status Expired when now > exp, else SeatsExceeded when
\* seats_used > num, else Ok (so seats_used = num is Ok).
C11_StatusForRepresentableTimestamps ==
    \A p \in Procs :
      Done(p, "license_info_from_raw")
      => LET raw == The(calls[p].raw)
         IN IF /\ raw.iat >= MinTimestamp /\ raw.iat <= MaxTimestamp
               /\ raw.exp >= MinTimestamp /\ raw.exp <= MaxTimestamp
            THEN /\ calls[p].ok
                 /\ calls[p].info # {}
                 /\ \A info \in calls[p].info :
                      /\ info.status = ExpectedStatus(raw, calls[p].seats_used)
                      /\ info.seats = raw.num
                      /\ info.seats_used = calls[p].seats_used
            ELSE /\ ~calls[p].ok
                 /\ calls[p].err = "Timestamp is corrupt"
                 /\ calls[p].info = {}

\* C11's case: an unexpired certificate whose seats are all in use, and no
\* more, is Ok.
C11_Witness ==
    \E p \in Procs :
      /\ Done(p, "license_info_from_raw") /\ calls[p].ok
      /\ The(calls[p].raw).exp = now
      /\ The(calls[p].raw).num = calls[p].seats_used
      /\ calls[p].seats_used > 0
      /\ The(calls[p].info).status = "Ok"

\* The certificate text decodes, its timestamps are representable, it is
\* unexpired now, and its seats cover the accounts that were active when
\* update_license was called.
AcceptableLicense(c) ==
    /\ validate_license(c.license) # {}
    /\ \A raw \in validate_license(c.license) :
         /\ raw.iat >= MinTimestamp /\ raw.iat <= MaxTimestamp
         /\ raw.exp >= now /\ raw.exp <= MaxTimestamp
         /\ c.pre.count <= raw.num

\* The certificate text does not decode, or it was expired when the call
\* read the clock, or its seats do not cover the accounts that were active.
UnacceptableLicense(c) ==
    \/ validate_license(c.license) = {}
    \/ \E raw \in validate_license(c.license) :
         \/ raw.exp < c.utc_now
         \/ c.pre.count > raw.num

\* C12: update_license stores the certificate only when the text verifies and
\* its status, for the seats recounted during the call, is Ok.  A call with a
\* text that does not verify, an expired certificate or one short of seats
\* returns an error and leaves the stored certificate, or its absence, as it
\* was; a read_license reports the certificate that is stored, or none.
C12_UpdateLicenseOnlyWhenOk ==
    \A p \in Procs :
      LET c == calls[p]
      IN /\ Done(p, "update_license")
            => /\ c.ok => /\ enterprise_license = {c.license}
                          /\ validate_license(c.license) # {}
                          /\ c.seats_used = c.pre.count
                          /\ seats.count = c.pre.count
                          /\ The(c.info).status = "Ok"
                          /\ The(c.raw).exp >= c.utc_now
                          /\ c.seats_used <= The(c.raw).num
                          /\ wrote[p] \subseteq {"enterprise_license"}
               /\ ~c.ok => /\ enterprise_license = c.pre.license
                           /\ wrote[p] = {}
               /\ AcceptableLicense(c) => c.ok
               /\ UnacceptableLicense(c) => ~c.ok
         /\ (Done(p, "read_license") /\ c.ok)
            => /\ wrote[p] = {}
               /\ c.pre.license = {} <=> c.info = {}
               /\ \A info \in c.info :
                    /\ c.pre.license = {c.license}
                    /\ info.expires_at = The(validate_license(c.license)).exp
                    /\ info.seats = The(validate_license(c.license)).num

\* C12's case: with a certificate stored, an update_license with another one
\* that is short of seats has failed.
C12_Witness ==
    \E p \in Procs :
      /\ Done(p, "update_license") /\ ~calls[p].ok
      /\ calls[p].pre.license # {}
      /\ calls[p].pre.license # {calls[p].license}
      /\ calls[p].info # {}
      /\ The(calls[p].info).status = "SeatsExceeded"

\* The accounts is_owner holds of.
Owners == {id \in UserIds : users[id].is_owner}

\* C13: update_user_role(id, false) and update_user_active(id, false) of
\* the owner return an error and change nothing: the owner is still an admin
\* and still active.
C13_OwnerCannotBeDemotedOrDisabled ==
    \A p \in Procs :
      LET c == calls[p]
      IN (/\ Done(p, "update_user_role") \/ Done(p, "update_user_active")
          /\ c.id \in Owners
          /\ ~c.flag)
         => /\ ~c.ok
            /\ c.err = (IF c.op = "update_user_role"
                        THEN "The owner's admin status cannot be changed"
                        ELSE "The owner's active status cannot be changed")
            /\ wrote[p] = {}
            /\ users[c.id].is_admin
            /\ users[c.id].active

\* C13's case: update_user_role(owner, false) has returned.
C13_Witness ==
    \E p \in Procs :
      /\ Done(p, "update_user_role")
      /\ calls[p].id \in Owners
      /\ ~calls[p].flag

\* C14: in every state the owner, if there is one, is an admin and is active;
\* so once there is an owner no step makes is_admin_initialized false.
C14_OwnerStaysAdminAndActive ==
    /\ [](\A id \in Owners : users[id].is_admin /\ users[id].active)
    /\ [][/\ \A id \in Owners : id \in Owners'
          /\ (Owners # {} /\ is_admin_initialized) => is_admin_initialized']_vars

\* C14's case: with a second account that was made an admin and disabled,
\* update_user_active(owner, false) has returned.
C14_Witness ==
    \E p \in Procs, id \in UserIds :
      /\ Done(p, "update_user_active")
      /\ calls[p].id \in Owners
      /\ ~calls[p].flag
      /\ id \notin Owners
      /\ users[id].is_admin
      /\ ~users[id].active

\* C15: oauth with an email that has no account and that the signup policy
\* accepts creates exactly one account, not an admin, with the empty string
\* as its password hash.  token_auth fails for every password on an account
\* whose hash is empty, and only password_reset replaces an empty hash.
C15_OAuthAccountHasNoPassword ==
    /\ [](\A p \in Procs :
            LET c == calls[p]
            IN /\ (Done(p, "oauth") /\ c.pre.user = {} /\ c.pre.allowed)
                  => /\ c.ok
                     /\ Len(users) = c.pre.users + 1
                     /\ c.user_id = Len(users)
                     /\ get_user_id_by_email(c.email) = {c.user_id}
                     /\ users[c.user_id].password_encrypted = EmptyHash
                     /\ ~users[c.user_id].is_admin
                     /\ ~c.is_admin
                     /\ {i.id : i \in invitations} = c.pre.invitations
               /\ (/\ Done(p, "token_auth")
                   /\ \E user \in get_user_by_email(c.email) :
                        user.password_encrypted = EmptyHash)
                  => /\ ~c.ok
                     /\ c.err = (IF The(get_user_by_email(c.email)).active
                                 THEN "Password is not valid"
                                 ELSE "User is disabled")
                     /\ wrote[p] = {})
    /\ [][\A id \in UserIds :
            (users[id].password_encrypted = EmptyHash
               /\ users'[id].password_encrypted # EmptyHash)
            => \E p \in Procs : At(p, "password_reset", "update_user_password")]_vars

\* C15's case: the account oauth made for an accepted email has been refused
\* a login with the empty password.
C15_Witness ==
    \E p \in Procs :
      /\ Done(p, "token_auth")
      /\ calls[p].password = ""
      /\ calls[p].err = "Password is not valid"
      /\ \E user \in get_user_by_email(calls[p].email) :
           /\ user.password_encrypted = EmptyHash
           /\ can_register_without_invitation(user.email)

\* The steps of get_or_create_oauth_user that follow the finding that the
\* email has no account.
OAuthNoAccountSteps ==
    {"read_security_setting", "create_user", "get_invitation_by_email",
     "create_user_with_invitation", "get_user"}

\* C18: oauth with the email of an account returns the id and the admin flag
\* of that account when it is active and fails with UserDisabled when it is
\* not; it creates no account, removes no invitation and does not read the
\* signup policy.
C18_OAuthExistingAccount ==
    \A p \in Procs :
      LET c == calls[p]
      IN (c.op = "oauth" /\ c.pre.user # {})
         => /\ c.pc \notin OAuthNoAccountSteps
            /\ wrote[p] \subseteq {"refresh_tokens"}
            /\ Len(users) = c.pre.users
            /\ {i.id : i \in invitations} = c.pre.invitations
            /\ Done(p, "oauth")
               => IF c.pre.active
                  THEN /\ c.ok
                       /\ c.pre.user = {c.user_id}
                       /\ c.is_admin = c.pre.is_admin
                       /\ c.is_admin = users[c.user_id].is_admin
                       /\ c.access_token = {generate_jwt(c.email, c.pre.is_admin)}
                  ELSE /\ ~c.ok
                       /\ c.err = "UserDisabled"
                       /\ wrote[p] = {}

\* C18's case: oauth with the email of a disabled account has failed.
C18_Witness ==
    \E p \in Procs :
      /\ Done(p, "oauth")
      /\ calls[p].pre.user # {}
      /\ ~calls[p].pre.active
      /\ calls[p].err = "UserDisabled"

\* C19: oauth with an email that has no account and that the signup policy
\* rejects fails with UserNotInvited and creates nothing when no invitation
\* has the email; when one has, it creates an account, not an admin, with
\* the empty string as its password hash, and the step that inserts the
\* account removes the invitation.
C19_OAuthByInvitation ==
    /\ [](\A p \in Procs :
            LET c == calls[p]
            IN (Done(p, "oauth") /\ c.pre.user = {} /\ ~c.pre.allowed)
               => IF c.pre.invitation = {}
                  THEN /\ ~c.ok
                       /\ c.err = "UserNotInvited"
                       /\ wrote[p] = {}
                       /\ Len(users) = c.pre.users
                  ELSE /\ c.ok
                       /\ Len(users) = c.pre.users + 1
                       /\ c.user_id = Len(users)
                       /\ users[c.user_id].email = c.email
                       /\ users[c.user_id].password_encrypted = EmptyHash
                       /\ ~users[c.user_id].is_admin
                       /\ ~c.is_admin
                       /\ {i.id : i \in c.invitation} \subseteq c.pre.invitation
                       /\ {i.id : i \in invitations}
                            = c.pre.invitations \ {i.id : i \in c.invitation}
                       /\ \A i \in c.invitation : i.email = c.email)
    /\ [][\A p \in Procs :
            At(p, "oauth", "create_user_with_invitation")
            /\ calls'[p].pc # "create_user_with_invitation"
            => \/ /\ Len(users') = Len(users) + 1
                  /\ invitations' = invitations \ calls[p].invitation
                  /\ calls[p].invitation \subseteq invitations
               \/ UNCHANGED <<users, invitations>>]_vars

\* C19's case: oauth with a rejected email that holds an invitation has made
\* the account.
C19_Witness ==
    \E p \in Procs :
      /\ Done(p, "oauth") /\ calls[p].ok
      /\ calls[p].pre.user = {}
      /\ ~calls[p].pre.allowed
      /\ calls[p].pre.invitation # {}

\* C16: password_verify returns false, and returns, for every password, the
\* empty one too, when the hash is the empty string or another string that
\* is no encoded hash.
C16_MalformedHashNeverVerifies ==
    \A p \in Procs :
      (Done(p, "password_verify") /\ calls[p].password_encrypted \in MalformedHashes)
      => calls[p].ok /\ ~calls[p].flag

\* C16's case: the empty password has been verified against the empty string.
C16_Witness ==
    \E p \in Procs :
      /\ Done(p, "password_verify")
      /\ calls[p].password = ""
      /\ calls[p].password_encrypted = EmptyHash

\* C17 as stated: no password verifies against a hash of the empty password.
C17_EmptyPasswordHashNeverVerifies ==
    \A p \in Procs :
      (Done(p, "password_verify") /\ calls[p].password_encrypted \in HashesOf(""))
      => ~calls[p].flag

\* C17, amended: against a hash of the empty password, the empty password
\* verifies and no other password does.
C17_EmptyPasswordHashVerifiesEmptyOnly ==
    \A p \in Procs :
      (Done(p, "password_verify") /\ calls[p].password_encrypted \in HashesOf(""))
      => (calls[p].flag <=> calls[p].password = "")

\* C17's case: a password that is not empty has been verified against a hash
\* of the empty password.
C17_Witness ==
    \E p \in Procs :
      /\ Done(p, "password_verify")
      /\ calls[p].password = "pw1"
      /\ calls[p].password_encrypted \in HashesOf("")

\* C20: create_invitation fails with InvalidLicense whenever the license read
\* has not the status Ok: it has written nothing when it returns, and no
\* invitation is stored and no invitation mailed.
C20_InvitationNeedsValidLicense ==
    license_status # "Ok"
    => /\ invitations = {}
       /\ history.mailed = {}
       /\ \A p \in Procs :
            /\ calls[p].op = "create_invitation" => wrote[p] = {}
            /\ Done(p, "create_invitation")
               => ~calls[p].ok /\ calls[p].err = "InvalidLicense"

\* C20's case: with a license short of seats create_invitation has returned.
C20_Witness ==
    \E p \in Procs :
      /\ Done(p, "create_invitation")
      /\ license_status = "SeatsExceeded"
      /\ \E id \in UserIds : users[id].is_admin

\* C21: request_invitation_email fails and stores no invitation when the
\* signup policy does not accept the email; when it accepts it, the call is
\* create_invitation's: it fails with InvalidLicense, storing nothing, when
\* the license is not valid and otherwise stores one invitation, for that
\* email.
C21_RequestInvitationNeedsAllowedDomain ==
    \A p \in Procs :
      LET c == calls[p]
      IN Done(p, "request_invitation_email")
         => IF ~c.pre.allowed
            THEN /\ ~c.ok
                 /\ c.err = "Your email does not belong to any known authentication domains"
                 /\ wrote[p] = {}
                 /\ invitations = c.pre.invitations
                 /\ history.mailed = c.pre.mailed
            ELSE IF license_status # "Ok"
            THEN /\ ~c.ok
                 /\ c.err = "InvalidLicense"
                 /\ wrote[p] = {}
                 /\ invitations = c.pre.invitations
                 /\ history.mailed = c.pre.mailed
            ELSE /\ c.ok
                 /\ wrote[p] = {"invitations"}
                 /\ \E i \in invitations \ c.pre.invitations :
                      /\ invitations = c.pre.invitations \cup {i}
                      /\ i.email = c.email
                      /\ i.id = c.id
                      /\ i.code = c.code
                      /\ history.mailed = c.pre.mailed \cup {i.code}

\* C21's case: with a valid license, a request for an email the policy does
\* not accept has failed.
C21_Witness ==
    \E p \in Procs :
      /\ Done(p, "request_invitation_email")
      /\ ~calls[p].pre.allowed
      /\ license_status = "Ok"
      /\ security_setting.allowed_register_domain_list # {}

\* The value token_auth returned to p.
TokenAuthOutcome(p) ==
    [ok |-> calls[p].ok, err |-> calls[p].err,
     access_token |-> calls[p].access_token,
     refresh_token |-> calls[p].refresh_token]

\* C22: token_auth of a disabled account fails with "User is disabled" and
\* creates no refresh token, whatever the password: two such calls, one with
\* the right password and one with a wrong one, return the same.
C22_DisabledBeforePassword ==
    \A p \in Procs :
      (/\ Done(p, "token_auth")
       /\ calls[p].pre.known /\ ~calls[p].pre.active)
      => /\ ~calls[p].ok
         /\ calls[p].err = "User is disabled"
         /\ calls[p].refresh_token = NoToken
         /\ wrote[p] = {}
         /\ \A q \in Procs :
              (/\ Done(q, "token_auth")
               /\ calls[q].pre.known /\ ~calls[q].pre.active)
              => TokenAuthOutcome(q) = TokenAuthOutcome(p)

\* C22's case: a disabled account has been refused with its right password
\* and with a wrong one.
C22_Witness ==
    \E p, q \in Procs :
      /\ Done(p, "token_auth") /\ Done(q, "token_auth")
      /\ calls[p].email = calls[q].email
      /\ calls[p].pre.known /\ ~calls[p].pre.active /\ ~calls[p].pre.wrong
      /\ calls[q].pre.known /\ ~calls[q].pre.active /\ calls[q].pre.wrong

\* C23 as stated: token_auth with an email that has no account returns what
\* token_auth with a wrong password for an active account returns.
C23_UnknownEmailLikeWrongPassword ==
    \A p, q \in Procs :
      (/\ Done(p, "token_auth") /\ ~calls[p].pre.known
       /\ Done(q, "token_auth")
       /\ calls[q].pre.known /\ calls[q].pre.active /\ calls[q].pre.wrong)
      => TokenAuthOutcome(p) = TokenAuthOutcome(q)

(***************************************************************************)
(* C24  As stated: read_used_seats(false) returns the cached count without *)
(* asking the store exactly when the cache is younger than 15 seconds, and *)
(* counts again from the age of 15 seconds on, that age included;          *)
(* read_used_seats(true) always counts again.  The code compares with >.   *)
(***************************************************************************)
C24_CachedBelowFifteenSeconds ==
    \A p \in Procs :
      Done(p, "read_used_seats")
        => (calls[p].pre.recounted
              <=> (calls[p].force_refresh
                     \/ calls[p].utc_now - calls[p].refreshed >= SeatsCacheAge))

\* C24, amended: read_used_seats(false) returns the cached count without
\* asking the store exactly when the cache is at most 15 seconds old, the
\* age of exactly 15 seconds included, and counts the active accounts again
\* and rewrites the cache when it is older; read_used_seats(true) always
\* counts again and rewrites the cache.
C24_CachedUpToFifteenSeconds ==
    /\ [](\A p \in Procs :
            Done(p, "read_used_seats")
              => (calls[p].pre.recounted
                    <=> (calls[p].force_refresh
                           \/ calls[p].utc_now - calls[p].refreshed > SeatsCacheAge)))
    /\ [][\A p \in Procs :
            /\ calls[p].op = "read_used_seats"
            /\ calls[p].pc # "done"
            /\ calls'[p].pc = "done"
            => IF calls'[p].pre.recounted
               THEN /\ calls'[p].seats_used = count_active_users
                    /\ seats'.count = count_active_users
                    /\ seats'.refreshed = calls[p].utc_now
               ELSE /\ calls'[p].seats_used = seats.count
                    /\ seats' = seats]_vars

\* A client has been given the cached count of a cache exactly 15 seconds
\* old.
C24_Witness ==
    \E p \in Procs :
      /\ Done(p, "read_used_seats")
      /\ ~calls[p].force_refresh
      /\ ~calls[p].pre.recounted
      /\ calls[p].utc_now - calls[p].refreshed = SeatsCacheAge

(***************************************************************************)
(* C25  As stated: while one call of read_used_seats waits for             *)
(* count_active_users, a concurrent read_used_seats(false) that finds the  *)
(* cache fresh is not blocked: the write lock is not held during the       *)
(* round trip to the store, so the reader can take the read lock.  The     *)
(* code takes the write lock before it asks the store.                     *)
(***************************************************************************)
C25_RefreshOutsideWriteLock ==
    \A p, q \in Procs :
      /\ p # q
      /\ calls[p].pc = "count_active_users"
      /\ calls[q].pc = "read_used_seats"
      /\ ~calls[q].force_refresh
      /\ ~read_used_seats_stale(FALSE, calls[q].utc_now - seats.refreshed)
      => seats.writer = 0

(***************************************************************************)
(* C26  As stated: under any interleaving of concurrent calls of           *)
(* read_used_seats, the cache always holds a (timestamp, count) pair       *)
(* written whole by one call, and every count read_used_seats(false)       *)
(* returns was read from the store no more than 15 seconds before the time *)
(* the call sampled as now.  The count new_license_service takes is read   *)
(* before it is stamped.                                                   *)
(***************************************************************************)
C26_CountAtMostFifteenSecondsOld ==
    /\ [][(seats'.refreshed # seats.refreshed \/ seats'.count # seats.count
           \/ seats'.read_at # seats.read_at)
          => \E p \in Procs :
               /\ calls[p].pc = "count_active_users"
               /\ seats.writer = p
               /\ seats' = [refreshed |-> calls[p].utc_now, count |-> count_active_users,
                            writer |-> 0, read_at |-> now]
               /\ seats'.read_at >= seats'.refreshed]_vars
    /\ [](\A p \in Procs :
            Done(p, "read_used_seats") /\ ~calls[p].force_refresh
              => calls[p].utc_now - calls[p].pre.read_at <= SeatsCacheAge)

\* C26, amended: under any interleaving of concurrent calls of
\* read_used_seats the cache always holds a (timestamp, count) pair written
\* whole by one call, and every count read_used_seats(false) returns was
\* read from the store no more than 15 seconds before the time the call
\* sampled as now, unless it is the count new_license_service took: that
\* one was read before its timestamp, and is returned up to 15 seconds
\* after its timestamp.
C26_CountOrStampAtMostFifteenSecondsOld ==
    /\ [][(seats'.refreshed # seats.refreshed \/ seats'.count # seats.count
           \/ seats'.read_at # seats.read_at)
          => \E p \in Procs :
               /\ calls[p].pc = "count_active_users"
               /\ seats.writer = p
               /\ seats' = [refreshed |-> calls[p].utc_now, count |-> count_active_users,
                            writer |-> 0, read_at |-> now]
               /\ seats'.read_at >= seats'.refreshed]_vars
    /\ [](\A p \in Procs :
            Done(p, "read_used_seats") /\ ~calls[p].force_refresh
              => \/ calls[p].utc_now - calls[p].pre.read_at <= SeatsCacheAge
                 \/ /\ ~calls[p].pre.recounted
                    /\ calls[p].pre.read_at < calls[p].refreshed
                    /\ calls[p].utc_now - calls[p].refreshed <= SeatsCacheAge)

\* A client has been given, 15 seconds after it was read from the store,
\* the count another call of read_used_seats had written.
C26_Witness ==
    \E p \in Procs :
      /\ Done(p, "read_used_seats")
      /\ ~calls[p].force_refresh
      /\ ~calls[p].pre.recounted
      /\ calls[p].pre.read_at > 0
      /\ calls[p].utc_now - calls[p].pre.read_at = SeatsCacheAge

(***************************************************************************)
(* C27  As stated: register, token_auth, refresh_token and oauth are each  *)
(* all-or-nothing: a call that returns an error, the store or the signing  *)
(* of the access token having failed part-way, leaves none of its changes  *)
(* in the store: no new account, no consumed invitation, no new or rotated *)
(* refresh token.  The code undoes nothing.                                *)
(***************************************************************************)
C27_FailedCallChangesNothing ==
    \A p \in Procs :
      /\ calls[p].pc = "done"
      /\ calls[p].op \in {"register", "token_auth", "refresh_token", "oauth"}
      /\ ~calls[p].ok
      => wrote[p] = {}

(***************************************************************************)
(* C28  As stated: update_user_role and update_user_active fail on the     *)
(* owner only when the call would demote or deactivate it; every other     *)
(* call on an existing account succeeds, update_user_role(ownerId, true)   *)
(* and update_user_active(ownerId, true) too, and a call on an account     *)
(* that is not the owner leaves it with the requested flag.  The code      *)
(* refuses the owner whatever the flag.                                    *)
(***************************************************************************)
C28_OwnerRefusedOnlyWhenLosing ==
    \A p \in Procs :
      LET c == calls[p]
      IN /\ Done(p, "update_user_role") /\ c.id \in UserIds
            => /\ c.ok <=> ~(is_owner(users[c.id]) /\ ~c.flag)
               /\ c.ok => users[c.id].is_admin = c.flag
         /\ Done(p, "update_user_active") /\ c.id \in UserIds
            => /\ c.ok <=> ~(is_owner(users[c.id]) /\ ~c.flag)
               /\ c.ok => users[c.id].active = c.flag

\* C28, amended: update_user_role and update_user_active fail on the owner
\* whatever flag is asked for, update_user_role(ownerId, true) and
\* update_user_active(ownerId, true) included, and change nothing; every
\* call on an existing account that is not the owner passes through to the
\* store and succeeds, and the account then has the requested flag value.
C28_OwnerRefusedWhateverTheFlag ==
    \A p \in Procs :
      LET c == calls[p]
      IN /\ Done(p, "update_user_role") /\ c.id \in UserIds
            => /\ c.ok <=> ~is_owner(users[c.id])
               /\ c.ok => users[c.id].is_admin = c.flag
               /\ ~c.ok => wrote[p] = {} /\ users[c.id].is_admin
         /\ Done(p, "update_user_active") /\ c.id \in UserIds
            => /\ c.ok <=> ~is_owner(users[c.id])
               /\ c.ok => users[c.id].active = c.flag
               /\ ~c.ok => wrote[p] = {} /\ users[c.id].active

\* update_user_role(ownerId, true) has been refused.
C28_Witness ==
    \E p \in Procs :
      /\ Done(p, "update_user_role")
      /\ calls[p].id \in UserIds
      /\ is_owner(users[calls[p].id])
      /\ calls[p].flag
      /\ ~calls[p].ok
      /\ calls[p].err = "The owner's admin status cannot be changed"

(***************************************************************************)
(* C29  A successful password_reset removes the account's reset request,   *)
(* and the cooldown with it: request_password_reset_email for the same     *)
(* active account right afterwards, less than 5 minutes after the first    *)
(* request, finds no request, succeeds and creates a new code.             *)
(***************************************************************************)
C29_ResetEndsCooldown ==
    /\ [][\A p \in Procs :
            /\ At(p, "password_reset", "update_user_password")
            /\ calls'[p].pc = "done"
            /\ calls'[p].ok
            => get_password_reset_by_user_id(calls[p].user_id)' = {}]_vars
    /\ [](\A p \in Procs :
            LET c == calls[p]
            IN /\ Done(p, "request_password_reset_email")
               /\ c.pre.active
               /\ c.pre.created_at = {}
               => /\ c.ok
                  /\ c.flag
                  /\ c.code \notin c.pre.codes
                  /\ \E r \in password_resets :
                       /\ r.code = c.code
                       /\ r.user_id = c.user_id
                       /\ r.created_at >= c.utc_now)

\* The one account has used its first code to reset its password and has,
\* less than 5 minutes after it first asked, been given a second code.
C29_Witness ==
    \E p \in Procs :
      /\ Done(p, "request_password_reset_email")
      /\ Len(users) = 1
      /\ calls[p].pre.created_at = {}
      /\ ResetCode(1) \in history.used
      /\ calls[p].ok
      /\ calls[p].code = ResetCode(2)
      /\ now < ResetCooldown

(***************************************************************************)
(* C30  As stated: under any interleaving of concurrent register calls     *)
(* started while no admin exists, at most one of them creates an admin     *)
(* (owner) account without an invitation; every other register fails or    *)
(* creates an account that is not admin through a valid invitation.  The   *)
(* code reads is_admin_initialized and creates the account in separate     *)
(* store calls.                                                            *)
(***************************************************************************)
C30_OneOwnerFromConcurrentRegisters ==
    /\ Cardinality({id \in UserIds : users[id].is_admin}) <= 1
    /\ \A p \in Procs :
         LET c == calls[p]
         IN Done(p, "register") /\ c.ok /\ c.user_id \in UserIds
              => \/ users[c.user_id].is_admin /\ c.invitation = {}
                 \/ ~users[c.user_id].is_admin /\ c.invitation # {}

(***************************************************************************)
(* C31  In every reachable state no two accounts have the same email,      *)
(* whatever the sequence and interleaving of register and                  *)
(* get_or_create_oauth_user calls, which look the email up and create the  *)
(* account in separate steps; a register for an email that already has an  *)
(* account fails, with the invitation error or with "Email is already      *)
(* registered", and creates nothing; a register that succeeds has made the *)
(* one account of its email, and one that fails has written nothing.       *)
(***************************************************************************)
C31_EmailsUnique ==
    /\ \A i, j \in UserIds : users[i].email = users[j].email => i = j
    /\ \A p \in Procs :
         LET c == calls[p]
         IN Done(p, "register")
              => /\ c.pre.registered
                      => /\ ~c.ok
                         /\ c.err \in {"Invitation code is not valid",
                                       "Email is already registered"}
                 /\ ~c.ok => wrote[p] = {}
                 /\ c.ok => /\ c.user_id \in UserIds
                            /\ users[c.user_id].email = c.email

\* A register lost the race for its email: no account had the email when
\* it was called, another client made one meanwhile, and the store refused
\* the second.
C31_Witness ==
    \E p \in Procs :
      /\ Done(p, "register")
      /\ ~calls[p].pre.registered
      /\ ~calls[p].ok
      /\ calls[p].err = "store"
      /\ wrote[p] = {}
      /\ \E id \in UserIds : users[id].email = calls[p].email


====
